---- MODULE Spec2Model ----
(***************************************************************************)
(* Client pool with authenticated-credential caching                        *)
(* (jhzhu89/azure-client-pool).                                             *)
(*                                                                          *)
(* The model follows three classes of the repository:                       *)
(*   CacheManager        utils/cache.ts        (src/unnamed/part_021)       *)
(*   CredentialManager   credentials/manager   (src/unnamed/part_026)       *)
(*   ClientProviderImpl  client-pool/client-provider.ts                     *)
(* and the part of @isaacs/ttlcache that CacheManager relies on (get with   *)
(* checkAgeOnGet/updateAgeOnGet, set with a per-entry ttl, delete, clear,   *)
(* the capacity purge and the expiry timer).                                *)
(*                                                                          *)
(* Time is one integer millisecond clock, read by Date.now() and by the     *)
(* ttl cache alike.  A client or application credential is identified by    *)
(* the number of the factory invocation ("flight") that built it.           *)
(***************************************************************************)
EXTENDS Integers, Sequences, FiniteSets, TLC

\* ------------------------------------------------------------------ bounds
MaxTime == 2            \* the clock runs from 0 to MaxTime
MaxClientFlights == 2   \* client factory invocations over one behaviour
MaxCredFlights == 3     \* application credential constructions over one behaviour
MaxObo == 2             \* delegated (on-behalf-of) credentials built over one behaviour
MaxProbeExpiry == 6     \* assertion expiries tried on the customTtl computation
MaxProbeBuffer == 3     \* bufferMs values tried on the customTtl computation
MaxNumber == 2          \* numbers that occur in options values
MaxProps == 3           \* properties of one options value, nested ones included
MaxCacheFlights == 3    \* factory invocations of direct getOrCreate callers over one behaviour
MaxSettleFlights == 3   \* factory invocations, of both caches, in the pool under fairness

\* ----------------------------------------------------------- configuration
ClientSlidingTtl == 2   \* config.clientCache.slidingTtl
ClientMaxSize == 2      \* config.clientCache.maxSize
ClientBufferMs == 1     \* config.clientCache.bufferMs
CredSlidingTtl == 2     \* config.credentialCache.slidingTtl
CredMaxSize == 1        \* config.credentialCache.maxSize
CredAbsoluteTtl == 2    \* config.credentialCache.absoluteTtl
CacheKeyPrefix == "client"  \* config.cacheKeyPrefix

\* ------------------------------------------------------------------- types
AuthModeApplication == "application"
AuthModeDelegated == "delegated"
AuthModeComposite == "composite"
CredentialTypeApplication == "application"
CredentialTypeDelegated == "delegated"

Max2(a, b) == IF a >= b THEN a ELSE b

\* A parsed user assertion: what JwtHandler.validateToken yields for a token.
ParsedJwtToken(tenant, user, exp) ==
  [tenantId |-> tenant, userObjectId |-> user, expiresAt |-> exp]

NoToken == ParsedJwtToken("", "", 0)

\* AuthContextFactory.application / delegated / composite
AuthContextFactory(mode, token) ==
  IF mode = AuthModeApplication
    THEN [mode |-> mode, tenantId |-> "", userObjectId |-> "", expiresAt |-> 0]
    ELSE [mode |-> mode, tenantId |-> token.tenantId,
          userObjectId |-> token.userObjectId, expiresAt |-> token.expiresAt]

\* The assertions callers present: those of two users whose identifiers
\* contain the key separator.
TokenPool ==
  { ParsedJwtToken("t::user:u", "w", 2),
    ParsedJwtToken("t", "u::user:w", 2) }

\* Assertions whose parsed claims lack the tenant or the user.
MalformedTokens ==
  { ParsedJwtToken("", "w", 2),
    ParsedJwtToken("t", "", 2) }

RequestPool ==
  { [mode |-> AuthModeApplication, token |-> NoToken] }
  \cup { [mode |-> AuthModeDelegated, token |-> tk] : tk \in TokenPool }
  \cup { [mode |-> AuthModeComposite, token |-> tk] :
           tk \in { ParsedJwtToken("t", "u::user:w", 2) } }
  \cup { [mode |-> m, token |-> tk] :
           m \in {AuthModeDelegated, AuthModeComposite}, tk \in MalformedTokens }

\* Options values: undefined, or a value with the fingerprint the factory
\* returns for it ("" when it returns none) and its serialisation hash.
UndefinedOptions == [defined |-> FALSE, fingerprint |-> "", hash |-> ""]
OptionsPool == { UndefinedOptions }

\* The concurrent callers (async call chains) of the pool and the manager.
Procs == { "p1", "p2" }

\* ------------------------------------------------------------ ttl cache
\* @isaacs/ttlcache keeps `expirations`, a map from expiration time to the
\* keys that expire then, iterated in ascending time and, within one time, in
\* the order the keys were given that time.  The model keeps the entries as
\* one sequence in exactly that order.
NoAbs == -1   \* CacheEntry.absoluteExpiresAt undefined

Has(ents, k) == \E i \in 1..Len(ents) : ents[i].key = k
Lookup(ents, k) == ents[CHOOSE i \in 1..Len(ents) : ents[i].key = k]
\* delete that leaves the entry where it is.
RemoveKept(ents, k) == ents

Remove(ents, k) == SelectSeq(ents, LAMBDA e : e.key # k)

InsertByExp(ents, e) ==
  LET n == Cardinality({ i \in 1..Len(ents) : ents[i].exp <= e.exp })
  IN SubSeq(ents, 1, n) \o <<e>> \o SubSeq(ents, n + 1, Len(ents))

\* TTLCache.setTTL: expiration = floor(now + ttl)
SetTTL(ents, k, ttl, t) ==
  InsertByExp(Remove(ents, k), [Lookup(ents, k) EXCEPT !.exp = t + ttl])

\* TTLCache.getRemainingTTL
GetRemainingTTL(ents, k, t) ==
  IF Has(ents, k) THEN Max2(0, Lookup(ents, k).exp - t) ELSE 0

\* get that takes an entry in its last millisecond for stale.
TtlGetStrictAge(ents, k, t, cacheTtl) ==
  IF GetRemainingTTL(ents, k, t) <= 1
    THEN [ents |-> Remove(ents, k), found |-> FALSE]
    ELSE [ents |-> SetTTL(ents, k, cacheTtl, t), found |-> TRUE]

\* TTLCache.get with checkAgeOnGet and updateAgeOnGet: a stale entry is
\* deleted and undefined returned; a live one has its ttl restarted with the
\* ttl of the CACHE (get passes no per-entry ttl).
TtlGet(ents, k, t, cacheTtl) ==
  IF GetRemainingTTL(ents, k, t) = 0
    THEN [ents |-> Remove(ents, k), found |-> FALSE]
    ELSE [ents |-> SetTTL(ents, k, cacheTtl, t), found |-> TRUE]

\* TTLCache.purgeToCapacity: the keys that expire soonest go first.
PurgeToCapacity(ents, max) ==
  IF Len(ents) > max THEN SubSeq(ents, Len(ents) - max + 1, Len(ents)) ELSE ents

\* TTLCache.set(key, value, {ttl})
TtlSet(ents, k, value, absExp, ttl, t, max) ==
  PurgeToCapacity(
    InsertByExp(Remove(ents, k),
                [key |-> k, value |-> value, absExp |-> absExp, exp |-> t + ttl]),
    max)

\* TTLCache.purgeStale, run by the expiry timer
PurgeStaleEnts(ents, t) == SelectSeq(ents, LAMBDA e : e.exp > t)


\* ------------------------------------------------------------ key builder
\* createStableCacheKey: md5 of the raw key, base64url.  The digest is kept
\* symbolic, md5(<raw key>), so that two stable keys are equal exactly when
\* the raw keys are (no md5 collision inside the bounded key set).
createStableCacheKey(rawKey) == "md5(" \o rawKey \o ")"

\* --------------------------------------------------------- options values
\* An options value is undefined, a number, or an object: the list of its
\* properties <<name, value>> in insertion order, names distinct.
UndefinedValue == [t |-> "undef", n |-> 0, props |-> <<>>]
Num(n) == [t |-> "num", n |-> n, props |-> <<>>]
Obj(props) == [t |-> "obj", n |-> 0, props |-> props]

\* The property names in use, in ascending order of their code units (the
\* order of Array.prototype.sort without a comparator).
KeyOrder == <<"a", "b", "x">>
TopKeys == {"a", "b"}
NestedKeys == {"a", "x"}

PropLists(keys, values) ==
  { s \in UNION { [1..n -> keys \X values] : n \in 0..Cardinality(keys) } :
      \A i, j \in DOMAIN s : i # j => s[i][1] # s[j][1] }

Numbers == { Num(n) : n \in 1..MaxNumber }
NestedObjects == { Obj(s) : s \in PropLists(NestedKeys, Numbers) }

\* The number of properties of a value, nested ones included.
PropCount(v) ==
  LET inner(i) == Len(v.props[i][2].props)
      sum[i \in 0..Len(v.props)] == IF i = 0 THEN 0 ELSE sum[i - 1] + inner(i)
  IN Len(v.props) + sum[Len(v.props)]

\* The options callers pass: undefined, and the objects of at most MaxProps
\* properties over numbers and one level of nested objects.
OptionsValues ==
  {UndefinedValue} \cup
  { o \in { Obj(s) : s \in PropLists(TopKeys, Numbers \cup NestedObjects) } :
      PropCount(o) <= MaxProps }

HasProp(o, k) == \E i \in DOMAIN o.props : o.props[i][1] = k
PropOf(o, k) == o.props[CHOOSE i \in DOMAIN o.props : o.props[i][1] = k][2]

\* Object.keys: the own property names in insertion order.
ObjectKeys(o) == [i \in 1..Len(o.props) |-> o.props[i][1]]

\* serializeOptions without the sort: the keys in insertion order.
ArraySortKept(keys) == keys

\* Array.prototype.sort on distinct property names.
ArraySort(keys) ==
  SelectSeq(KeyOrder, LAMBDA k : \E i \in DOMAIN keys : keys[i] = k)

\* JSON.stringify(value, replacer) with an array replacer: of every object,
\* at every depth, exactly the properties named in the array are written,
\* in the order of the array.
RECURSIVE JSONStringify(_, _), JSONMembers(_, _, _, _)
JSONMembers(value, kept, replacer, i) ==
  IF i > Len(kept) THEN ""
  ELSE (IF i > 1 THEN "," ELSE "")
       \o "\"" \o kept[i] \o "\":"
       \o JSONStringify(PropOf(value, kept[i]), replacer)
       \o JSONMembers(value, kept, replacer, i + 1)

JSONStringify(value, replacer) ==
  IF value.t = "num" THEN ToString(value.n)
  ELSE "{" \o JSONMembers(value,
                          SelectSeq(replacer, LAMBDA k : HasProp(value, k)),
                          replacer, 1)
           \o "}"

\* ClientProviderImpl.serializeOptions
serializeOptions(options) ==
  createStableCacheKey(JSONStringify(options, ArraySort(ObjectKeys(options))))

\* The options argument read with a truthiness test that also takes an
\* object without properties for no options.
OptionsArgumentEmptyAsUndefined(options, clientFingerprint) ==
  IF options.t = "undef" \/ options.props = <<>> THEN UndefinedOptions
  ELSE [defined |-> TRUE, fingerprint |-> clientFingerprint,
        hash |-> serializeOptions(options)]

\* What generateRawCacheKey reads of the options argument: whether it is
\* defined, the fingerprint the factory returns for it ("" when the factory
\* has no fingerprint function or returns nothing), and serializeOptions.
\* The fingerprint function is not asked about undefined options.
OptionsArgument(options, clientFingerprint) ==
  IF options.t = "undef" THEN UndefinedOptions
  ELSE [defined |-> TRUE, fingerprint |-> clientFingerprint,
        hash |-> serializeOptions(options)]

\* generateRawCacheKey that ignores the fingerprint.
generateRawCacheKeyNoFingerprint(authContext, options) ==
  LET head == CacheKeyPrefix \o "::" \o authContext.mode
      ident == IF authContext.mode # AuthModeApplication
                 THEN "::tenant:" \o authContext.tenantId
                      \o "::user:" \o authContext.userObjectId
                 ELSE ""
      opt == IF options.defined THEN "::options:" \o options.hash ELSE ""
  IN head \o ident \o opt

\* generateRawCacheKey that leaves the auth mode out of the key.
generateRawCacheKeyNoMode(authContext, options) ==
  LET head == CacheKeyPrefix
      ident == IF authContext.mode # AuthModeApplication
                 THEN "::tenant:" \o authContext.tenantId
                      \o "::user:" \o authContext.userObjectId
                 ELSE ""
      opt == IF options.defined
               THEN IF options.fingerprint # ""
                      THEN "::fingerprint:" \o options.fingerprint
                      ELSE "::options:" \o options.hash
               ELSE ""
  IN head \o ident \o opt

\* ClientProviderImpl.generateRawCacheKey
generateRawCacheKey(authContext, options) ==
  LET head == CacheKeyPrefix \o "::" \o authContext.mode
      ident == IF authContext.mode # AuthModeApplication
                 THEN "::tenant:" \o authContext.tenantId
                      \o "::user:" \o authContext.userObjectId
                 ELSE ""
      opt == IF options.defined
               THEN IF options.fingerprint # ""
                      THEN "::fingerprint:" \o options.fingerprint
                      ELSE "::options:" \o options.hash
               ELSE ""
  IN head \o ident \o opt

ClientCacheKey(authContext, options) ==
  createStableCacheKey(generateRawCacheKey(authContext, options))

\* CredentialManager.createApplicationRawCacheKey, hashed
ApplicationCredentialKey ==
  createStableCacheKey(CacheKeyPrefix \o "::" \o CredentialTypeApplication)

\* validateAuthContext without the userObjectId check.
validateAuthContextNoUserCheck(authContext) ==
  IF authContext.mode # AuthModeApplication /\ authContext.tenantId = ""
    THEN "MissingTenant"
  ELSE "ok"

\* ClientProviderImpl.validateAuthContext
validateAuthContext(authContext) ==
  IF authContext.mode # AuthModeApplication /\ authContext.tenantId = ""
    THEN "MissingTenant"
  ELSE IF authContext.mode # AuthModeApplication /\ authContext.userObjectId = ""
    THEN "MissingUser"
  ELSE "ok"

\* getClient's expiry check with the comparison off by one: an assertion that
\* expires at this very millisecond passes.
TokenHasExpiredStrict(authContext, t) == authContext.expiresAt < t

\* ClientProviderImpl.getClient: if (authContext.expiresAt <= now) throw
TokenHasExpired(authContext, t) == authContext.expiresAt <= t

\* customTtl computed without the safety buffer.
CustomTtlNoBuffer(expiresAt, t, bufferMs) == Max2(expiresAt - t, 1)

\* ClientProviderImpl.getClient: customTtl = Math.max(remaining - bufferMs, 1)
CustomTtl(expiresAt, t, bufferMs) == Max2((expiresAt - t) - bufferMs, 1)

\* ---------------------------------------------------------- cache options
\* CacheOptions of CacheManager.getOrCreate: slidingTtl?, absoluteTtl?
\* getClient computing customTtl from expiresAt whatever the mode is.
CustomTtlOptionsAlways(hasCustom, customTtl) ==
  [hasSliding |-> TRUE, slidingTtl |-> customTtl,
   hasAbsolute |-> FALSE, absoluteTtl |-> 0]

\* getClient hands customTtl to getOrCreate as the per-entry sliding ttl (the
\* cache's custom TTL, "used in lieu of the default sliding TTL"); undefined
\* for an application request.
CustomTtlOptions(hasCustom, customTtl) ==
  [hasSliding |-> hasCustom, slidingTtl |-> IF hasCustom THEN customTtl ELSE 0,
   hasAbsolute |-> FALSE, absoluteTtl |-> 0]

\* getApplicationCredential: { absoluteTtl: config.credentialCache.absoluteTtl }
ApplicationCredentialOptions ==
  [hasSliding |-> FALSE, slidingTtl |-> 0,
   hasAbsolute |-> TRUE, absoluteTtl |-> CredAbsoluteTtl]

\* ------------------------------------------------------------------ state
VARIABLES
  now,          \* the clock
  clientCache,  \* ClientProviderImpl.clientCache: [ents, pending]
  credCache,    \* CredentialManager.applicationCredentialCache: [ents, pending]
  flights,      \* the createInternal invocations so far, in order
  calls,        \* per caller: the call it is in and its result
  oboCount,     \* delegated credentials built by the delegated strategy
  probe         \* the inputs and the result of one computation made on its
                \* own (customTtl, the cache keys of two requests)

vars == <<now, clientCache, credCache, flights, calls, oboCount, probe>>

NoResult == [kind |-> "none", id |-> 0, err |-> ""]
Ok(id) == [kind |-> "ok", id |-> id, err |-> ""]
Err(e) == [kind |-> "err", id |-> 0, err |-> e]
\* The error the factory call of flight f threw: one Error object, handed to
\* every caller that awaits the promise of f.
Thrown(f, e) == [kind |-> "err", id |-> f, err |-> e]

IdleCall ==
  [op |-> "none", pc |-> "idle", mode |-> AuthModeApplication, token |-> NoToken,
   options |-> UndefinedOptions, ctype |-> "", via |-> 0, key |-> "",
   flight |-> 0, owner |-> FALSE, res |-> NoResult]

EmptyCache == [ents |-> <<>>, pending |-> <<>>]

\* customTtl is at least 1 once computed: 0 stands for "not computed".
NoProbe == [expiresAt |-> 0, bufferMs |-> 0, customTtl |-> 0]

Init ==
  /\ now = 0
  /\ clientCache = EmptyCache
  /\ credCache = EmptyCache
  /\ flights = <<>>
  /\ calls = [p \in Procs |-> IdleCall]
  /\ oboCount = 0
  /\ probe = NoProbe

\* ----------------------------------------------------------- CacheManager
\* pendingRequests is a Map from key to promise; the model keeps it as a
\* function from the keys that have a marker to the flight the promise is of.
PendingHas(c, k) == k \in DOMAIN c.pending
PendingSet(c, k, f) ==
  [x \in DOMAIN c.pending \cup {k} |-> IF x = k THEN f ELSE c.pending[x]]
\* getOrCreate without the finally block: the marker stays.
PendingDeleteKept(c, k) == c.pending

PendingDelete(c, k) == [x \in DOMAIN c.pending \ {k} |-> c.pending[x]]

\* getOrCreate without the pendingRequests lookup: a caller that finds no
\* entry starts a factory call of its own.
GetOrCreatePlanNoJoin(c, k, t, cacheTtl) ==
  LET g == TtlGet(c.ents, k, t, cacheTtl)
      e == Lookup(c.ents, k)
  IN IF g.found
       THEN IF e.absExp # NoAbs /\ e.absExp <= t
              THEN [kind |-> "expired", ents |-> g.ents, id |-> 0]
              ELSE [kind |-> "hit", ents |-> g.ents, id |-> e.value]
     ELSE [kind |-> "miss", ents |-> g.ents, id |-> 0]

\* getOrCreate without the absoluteExpiresAt check: whatever the ttl cache
\* still holds is returned.
GetOrCreatePlanNoAbsolute(c, k, t, cacheTtl) ==
  LET g == TtlGet(c.ents, k, t, cacheTtl)
      e == Lookup(c.ents, k)
  IN IF g.found
       THEN [kind |-> "hit", ents |-> g.ents, id |-> e.value]
     ELSE IF PendingHas(c, k)
       THEN [kind |-> "join", ents |-> g.ents, id |-> c.pending[k]]
     ELSE [kind |-> "miss", ents |-> g.ents, id |-> 0]

\* The synchronous part of CacheManager.getOrCreate, up to its first await:
\*   hit      the cached value is returned
\*   expired  the entry is past its absolute deadline: createInternal is
\*            called and its promise returned (no pending marker)
\*   join     the pending promise is returned
\*   miss     createInternal is called and its promise recorded as pending
GetOrCreatePlan(c, k, t, cacheTtl) ==
  LET g == TtlGet(c.ents, k, t, cacheTtl)
      e == Lookup(c.ents, k)
  IN IF g.found
       THEN IF e.absExp # NoAbs /\ e.absExp <= t
              THEN [kind |-> "expired", ents |-> g.ents, id |-> 0]
              ELSE [kind |-> "hit", ents |-> g.ents, id |-> e.value]
     ELSE IF PendingHas(c, k)
       THEN [kind |-> "join", ents |-> g.ents, id |-> c.pending[k]]
     ELSE [kind |-> "miss", ents |-> g.ents, id |-> 0]

\* The cache after the synchronous part of getOrCreate; f is the number of
\* the flight a miss or an expired hit starts.
CacheAfterPlan(c, k, plan, f) ==
  [ents |-> plan.ents,
   pending |-> IF plan.kind = "miss" THEN PendingSet(c, k, f) ELSE c.pending]

\* CacheManager.createInternal after `await factory()` has produced a value:
\* the entries of the cache afterwards.
CreateInternalStore(ents, k, value, options, cacheTtl, max, t) ==
  LET sliding0 == IF options.hasSliding THEN options.slidingTtl ELSE cacheTtl
      sliding == IF options.hasAbsolute /\ sliding0 > options.absoluteTtl
                   THEN options.absoluteTtl ELSE sliding0
      effectiveTtl == Max2(sliding, 1)
      absExp == IF options.hasAbsolute THEN t + options.absoluteTtl ELSE NoAbs
  IN IF options.hasAbsolute /\ options.absoluteTtl <= 0
       THEN Remove(ents, k)
       ELSE TtlSet(ents, k, value, absExp, effectiveTtl, t, max)

CacheTtlOf(name) == IF name = "client" THEN ClientSlidingTtl ELSE CredSlidingTtl
CacheMaxOf(name) == IF name = "client" THEN ClientMaxSize ELSE CredMaxSize

\* What the cache can see of a value: the disposal hooks it exposes and
\* whether they throw (or reject) when called.
HookAsyncDispose == "Symbol.asyncDispose"
HookSymbolDispose == "Symbol.dispose"
HookDispose == "dispose"
PlainValue == [hooks |-> {}, throws |-> FALSE]
\* disposeEntry calling every hook the value has.
HooksInvokedAll(value) == value.hooks

\* CacheManager.disposeEntry: the hooks it calls on a value, the first of
\* Symbol.asyncDispose, Symbol.dispose, dispose that the value has.
HooksInvoked(value) ==
  IF HookAsyncDispose \in value.hooks THEN {HookAsyncDispose}
  ELSE IF HookSymbolDispose \in value.hooks THEN {HookSymbolDispose}
  ELSE IF HookDispose \in value.hooks THEN {HookDispose}
  ELSE {}

\* A dispose callback that calls the hook itself, unguarded.
DisposeCallbackUnguarded(value) ==
  [hooks |-> HooksInvoked(value),
   escaped |-> HooksInvoked(value) # {} /\ value.throws]

\* The dispose callback the ttl cache is built with.  disposeEntry is async
\* and catches what the hook throws (logged as a warning); the callback
\* attaches .catch to its promise and returns at once: nothing escapes into
\* the cache operation that dropped the value.
DisposeCallback(value) ==
  [hooks |-> HooksInvoked(value), escaped |-> FALSE]

\* Hooks that have run to their end when the dispose callback returns, had
\* the cache operation waited for disposeEntry.
HooksSettledOnReturnAwaited(value) == HooksInvoked(value)

\* Of the hooks disposeEntry calls, those that have run to their end when the
\* dispose callback returns: Symbol.dispose is called and not awaited;
\* Symbol.asyncDispose and dispose return a promise that disposeEntry awaits,
\* and the callback has returned by then.
HooksSettledOnReturn(value) == HooksInvoked(value) \cap {HookSymbolDispose}

\* A flight: one createInternal invocation (one factory call) and the value
\* it builds.  `disposed` counts the dispose callbacks the ttl cache has made
\* for its value, `hookCalls` the hooks called on it and `settled` those of
\* them that have run to their end; `err` is what the factory (or
\* createInternal after it) threw, if it did.
NewFlightOf(name, k, ctx, options, value) ==
  [cache |-> name, key |-> k, ctx |-> ctx, options |-> options, value |-> value,
   status |-> "running", disposed |-> 0, hookCalls |-> 0, settled |-> 0,
   err |-> ""]

\* The flight of a client or credential factory: a value without hooks.
NewFlight(name, k, ctx, options) == NewFlightOf(name, k, ctx, options, PlainValue)

Values(ents) == { ents[i].value : i \in 1..Len(ents) }

\* The ttl cache calls dispose(value, key, reason) for every value it drops:
\* the flights after the values in `dropped` have been handed to dispose.
WithDisposals(fls, dropped) ==
  [i \in DOMAIN fls |->
     IF i \in dropped
       THEN [fls[i] EXCEPT !.disposed = @ + 1,
               !.hookCalls = @ + Cardinality(DisposeCallback(fls[i].value).hooks),
               !.settled = @ + Cardinality(HooksSettledOnReturn(fls[i].value))]
       ELSE fls[i]]

\* An exception has escaped from a dispose callback for one of `dropped`.
DisposeEscaped(fls, dropped) ==
  \E i \in dropped : DisposeCallback(fls[i].value).escaped

ClientFlights == { f \in 1..Len(flights) : flights[f].cache = "client" }
CredFlights == { f \in 1..Len(flights) : flights[f].cache = "cred" }

InFlight(name, k) ==
  { f \in 1..Len(flights) :
      /\ flights[f].cache = name
      /\ flights[f].key = k
      /\ flights[f].status = "running" }


\* ------------------------------------------------------------ ClientPool
\* A call that has settled is "done" until its caller has taken the outcome
\* (Return).  Taking the outcome touches nothing of the program, so it is
\* scheduled first: no other step runs while an outcome waits to be taken.
NoneDone == \A q \in Procs : calls[q].pc # "done"

CanCall(p) == calls[p].pc = "idle" /\ NoneDone

Return(p) ==
  /\ calls[p].pc = "done"
  /\ calls' = [calls EXCEPT ![p] = IdleCall]
  /\ UNCHANGED <<now, clientCache, credCache, flights, oboCount, probe>>

\* getClient(authRequest, options).  createAuthContext, which the call awaits
\* first, reads and writes nothing shared, so the call takes effect where it
\* resumes: validateAuthContext, the key, the expiry check, customTtl and the
\* synchronous part of clientCache.getOrCreate, whose factory closure binds
\* authContext into the credential provider it hands to createClient.
GetClient(p, req, o) ==
  LET authContext == AuthContextFactory(req.mode, req.token)
      valid == validateAuthContext(authContext)
      k == ClientCacheKey(authContext, o)
      tokenBound == authContext.mode # AuthModeApplication
      customTtl == CustomTtl(authContext.expiresAt, now, ClientBufferMs)
      plan == GetOrCreatePlan(clientCache, k, now, ClientSlidingTtl)
      f == Len(flights) + 1
      start == [IdleCall EXCEPT !.op = "getClient", !.mode = req.mode,
                                !.token = req.token, !.options = o]
      dropped == Values(clientCache.ents) \ Values(plan.ents)
  IN /\ CanCall(p)
     /\ IF valid # "ok"
          THEN /\ calls' = [calls EXCEPT ![p] =
                    [start EXCEPT !.pc = "done", !.res = Err(valid)]]
               /\ UNCHANGED <<clientCache, flights>>
        ELSE IF tokenBound /\ TokenHasExpired(authContext, now)
          THEN /\ calls' = [calls EXCEPT ![p] =
                    [start EXCEPT !.pc = "done", !.res = Err("TokenExpired")]]
               /\ UNCHANGED <<clientCache, flights>>
        ELSE
          /\ plan.kind \in {"miss", "expired"} =>
               Cardinality(ClientFlights) < MaxClientFlights
          /\ clientCache' = CacheAfterPlan(clientCache, k, plan, f)
          /\ CASE plan.kind = "hit" ->
                    /\ calls' = [calls EXCEPT ![p] =
                         [start EXCEPT !.pc = "done", !.res = Ok(plan.id)]]
                    /\ flights' = WithDisposals(flights, dropped)
               [] plan.kind = "join" ->
                    /\ calls' = [calls EXCEPT ![p] =
                         [start EXCEPT !.pc = "await", !.flight = plan.id]]
                    /\ flights' = WithDisposals(flights, dropped)
               [] OTHER ->
                    /\ calls' = [calls EXCEPT ![p] =
                         [start EXCEPT !.pc = "await", !.flight = f,
                                       !.owner = (plan.kind = "miss")]]
                    /\ flights' = Append(WithDisposals(flights, dropped),
                         NewFlight("client", k, authContext,
                                   CustomTtlOptions(tokenBound, customTtl)))
     /\ UNCHANGED <<now, credCache, oboCount, probe>>

\* invalidateClientCache(authRequest, options): validateAuthContext, the key,
\* CacheManager.delete.  The result id is 1 when an entry was removed, 0 when
\* none was.
InvalidateClientCache(p, req, o) ==
  LET authContext == AuthContextFactory(req.mode, req.token)
      valid == validateAuthContext(authContext)
      k == ClientCacheKey(authContext, o)
      start == [IdleCall EXCEPT !.op = "invalidate", !.mode = req.mode,
                                !.token = req.token, !.options = o]
      ents2 == Remove(clientCache.ents, k)
  IN /\ CanCall(p)
     /\ IF valid # "ok"
          THEN /\ calls' = [calls EXCEPT ![p] =
                    [start EXCEPT !.pc = "done", !.res = Err(valid)]]
               /\ UNCHANGED <<clientCache, flights>>
          ELSE /\ calls' = [calls EXCEPT ![p] =
                    [start EXCEPT !.pc = "done",
                       !.res = Ok(IF Has(clientCache.ents, k) THEN 1 ELSE 0)]]
               /\ clientCache' = [clientCache EXCEPT !.ents = ents2]
               /\ flights' = WithDisposals(flights, Values(clientCache.ents) \ Values(ents2))
     /\ UNCHANGED <<now, credCache, oboCount, probe>>

\* --------------------------------------------------- CacheManager, async
\* The factory of flight f settles and createInternal runs on: on success
\* the value is stored (or, with absoluteTtl <= 0, the key deleted) and the
\* promise resolves; on failure the promise rejects.
CreateInternalResume(f, ok) ==
  LET fl == flights[f]
      old == IF fl.cache = "client" THEN clientCache.ents ELSE credCache.ents
      new == CreateInternalStore(old, fl.key, f, fl.options,
                                 CacheTtlOf(fl.cache), CacheMaxOf(fl.cache), now)
      stored == ~(fl.options.hasAbsolute /\ fl.options.absoluteTtl <= 0)
      dropped == (Values(old) \cup (IF stored THEN {f} ELSE {})) \ Values(new)
  IN /\ NoneDone
     /\ fl.status = "running"
     /\ IF ok
          THEN /\ flights' = WithDisposals(
                    IF DisposeEscaped(flights, dropped)
                      THEN [flights EXCEPT ![f].status = "rejected",
                                           ![f].err = "DisposeError"]
                      ELSE [flights EXCEPT ![f].status = "resolved"], dropped)
               /\ IF fl.cache = "client"
                    THEN /\ clientCache' = [clientCache EXCEPT !.ents = new]
                         /\ UNCHANGED credCache
                    ELSE /\ credCache' = [credCache EXCEPT !.ents = new]
                         /\ UNCHANGED clientCache
          ELSE /\ flights' = [flights EXCEPT ![f].status = "rejected",
                    ![f].err = IF fl.cache = "client" THEN "FactoryFailure"
                                                      ELSE "StrategyFailure"]
               /\ UNCHANGED <<clientCache, credCache>>
     /\ UNCHANGED <<now, calls, oboCount, probe>>

\* A promise whose rejection never reaches the callers awaiting it.
PromiseSettledOnResolve(fl) == fl.status = "resolved"

\* The promise of createInternal settles when the call returns or throws.
PromiseSettled(fl) == fl.status # "running"

\* getOrCreate after `await promise`: the first arrival removes the pending
\* marker of its key (finally), and every awaiting caller gets the outcome.
AwaitSettle(p) ==
  LET c == calls[p]
      fl == flights[c.flight]
      r == IF fl.status = "resolved" THEN Ok(c.flight) ELSE Thrown(c.flight, fl.err)
  IN /\ NoneDone
     /\ c.pc = "await"
     /\ PromiseSettled(fl)
     /\ calls' = [calls EXCEPT ![p].pc = "done", ![p].res = r]
     /\ IF c.owner /\ fl.cache = "client"
          THEN /\ clientCache' = [clientCache EXCEPT !.pending = PendingDelete(clientCache, fl.key)]
               /\ UNCHANGED credCache
        ELSE IF c.owner
          THEN /\ credCache' = [credCache EXCEPT !.pending = PendingDelete(credCache, fl.key)]
               /\ UNCHANGED clientCache
        ELSE UNCHANGED <<clientCache, credCache>>
     /\ UNCHANGED <<now, flights, oboCount, probe>>

\* ----------------------------------------------------- CredentialManager
\* getDelegatedCredential serving a credential kept from an earlier call
\* instead of asking the strategy.
getDelegatedCredentialReused(authContext, t) ==
  IF authContext.mode = AuthModeApplication
    THEN [err |-> "AuthModeMismatch", invoked |-> FALSE]
  ELSE IF authContext.expiresAt <= t
    THEN [err |-> "TokenExpired", invoked |-> FALSE]
  ELSE [err |-> "", invoked |-> FALSE]

\* getDelegatedCredential without validateAndGetTokenContext.
getDelegatedCredentialNoModeCheck(authContext, t) ==
  IF authContext.expiresAt <= t
    THEN [err |-> "TokenExpired", invoked |-> FALSE]
  ELSE [err |-> "", invoked |-> TRUE]

\* getDelegatedCredential (and the strategy) without the expiry check.
getDelegatedCredentialNoExpiryCheck(authContext, t) ==
  IF authContext.mode = AuthModeApplication
    THEN [err |-> "AuthModeMismatch", invoked |-> FALSE]
  ELSE [err |-> "", invoked |-> TRUE]

\* CredentialManager.getDelegatedCredential up to the strategy call:
\* validateAndGetTokenContext, then the expiry check; `invoked` says whether
\* credentialFactory.createDelegatedCredential (the delegated strategy's
\* createOBOCredential) is called.  The strategy repeats the expiry check and
\* otherwise constructs the on-behalf-of credential from the configured
\* secret or certificate.
getDelegatedCredential(authContext, t) ==
  IF authContext.mode = AuthModeApplication
    THEN [err |-> "AuthModeMismatch", invoked |-> FALSE]
  ELSE IF authContext.expiresAt <= t
    THEN [err |-> "TokenExpired", invoked |-> FALSE]
  ELSE [err |-> "", invoked |-> TRUE]

\* The auth contexts that reach the credential manager: getClient binds a
\* context into a credential provider only after validateAuthContext.
PoolContexts ==
  { ctx \in { AuthContextFactory(r.mode, r.token) : r \in RequestPool } :
      validateAuthContext(ctx) = "ok" }

\* credentialManager.getCredential(authContext, authType), called directly
\* (via = 0) or through the credential provider that getClient bound into the
\* factory call of flight `via` (authContext is then that call's context).
\* An application credential comes from the credential cache; a delegated
\* one is built on the spot and its number is the result.
GetCredential(p, via, authContext, ctype) ==
  LET plan == GetOrCreatePlan(credCache, ApplicationCredentialKey, now, CredSlidingTtl)
      f == Len(flights) + 1
      d == getDelegatedCredential(authContext, now)
      start == [IdleCall EXCEPT !.op = "getCredential", !.mode = authContext.mode,
                  !.token = ParsedJwtToken(authContext.tenantId,
                                           authContext.userObjectId,
                                           authContext.expiresAt),
                  !.ctype = ctype, !.via = via]
      dropped == Values(credCache.ents) \ Values(plan.ents)
  IN /\ CanCall(p)
     /\ via # 0 => via \in ClientFlights /\ authContext = flights[via].ctx
     /\ via = 0 => authContext \in PoolContexts
     /\ IF ctype = CredentialTypeApplication
          THEN /\ plan.kind \in {"miss", "expired"} =>
                    Cardinality(CredFlights) < MaxCredFlights
               /\ credCache' = CacheAfterPlan(credCache, ApplicationCredentialKey, plan, f)
               /\ UNCHANGED oboCount
               /\ CASE plan.kind = "hit" ->
                         /\ calls' = [calls EXCEPT ![p] =
                              [start EXCEPT !.pc = "done", !.res = Ok(plan.id)]]
                         /\ flights' = WithDisposals(flights, dropped)
                    [] plan.kind = "join" ->
                         /\ calls' = [calls EXCEPT ![p] =
                              [start EXCEPT !.pc = "await", !.flight = plan.id]]
                         /\ flights' = WithDisposals(flights, dropped)
                    [] OTHER ->
                         /\ calls' = [calls EXCEPT ![p] =
                              [start EXCEPT !.pc = "await", !.flight = f,
                                            !.owner = (plan.kind = "miss")]]
                         /\ flights' = Append(WithDisposals(flights, dropped),
                              NewFlight("cred", ApplicationCredentialKey,
                                        AuthContextFactory(AuthModeApplication, NoToken),
                                        ApplicationCredentialOptions))
          ELSE /\ d.invoked => oboCount < MaxObo
               /\ oboCount' = IF d.invoked THEN oboCount + 1 ELSE oboCount
               /\ calls' = [calls EXCEPT ![p] =
                    [start EXCEPT !.pc = "done",
                       !.res = IF d.err # "" THEN Err(d.err) ELSE Ok(oboCount + 1)]]
               /\ UNCHANGED <<credCache, flights>>
     /\ UNCHANGED <<now, clientCache, probe>>

\* CredentialManager.clearCache: CacheManager.clear on the credential cache
\* (cache.clear disposes every entry; pendingRequests.clear).
ClearCredentialCache ==
  /\ NoneDone
  /\ credCache # EmptyCache
  /\ credCache' = EmptyCache
  /\ flights' = WithDisposals(flights, Values(credCache.ents))
  /\ UNCHANGED <<now, clientCache, calls, oboCount, probe>>

\* ------------------------------------------------------------ environment
\* The expiry timer of a ttl cache fires: purgeStale.
PurgeStaleClient ==
  /\ NoneDone
  /\ \E i \in 1..Len(clientCache.ents) : clientCache.ents[i].exp <= now
  /\ clientCache' = [clientCache EXCEPT !.ents = PurgeStaleEnts(@, now)]
  /\ flights' = WithDisposals(flights,
       Values(clientCache.ents) \ Values(PurgeStaleEnts(clientCache.ents, now)))
  /\ UNCHANGED <<now, credCache, calls, oboCount, probe>>

PurgeStaleCred ==
  /\ NoneDone
  /\ \E i \in 1..Len(credCache.ents) : credCache.ents[i].exp <= now
  /\ credCache' = [credCache EXCEPT !.ents = PurgeStaleEnts(@, now)]
  /\ flights' = WithDisposals(flights,
       Values(credCache.ents) \ Values(PurgeStaleEnts(credCache.ents, now)))
  /\ UNCHANGED <<now, clientCache, calls, oboCount, probe>>

Tick ==
  /\ NoneDone
  /\ now < MaxTime
  /\ now' = now + 1
  /\ UNCHANGED <<clientCache, credCache, flights, calls, oboCount, probe>>

\* The pool: getClient and invalidateClientCache callers, the client
\* factories, and the credential provider views asked for delegated
\* credentials.
Next ==
  \/ \E p \in Procs, req \in RequestPool, o \in OptionsPool : GetClient(p, req, o)
  \/ \E p \in Procs, req \in RequestPool, o \in OptionsPool : InvalidateClientCache(p, req, o)
  \/ \E f \in 1..Len(flights), ok \in BOOLEAN : CreateInternalResume(f, ok)
  \/ \E p \in Procs : AwaitSettle(p)
  \/ \E p \in Procs, via \in 0..Len(flights), ctx \in PoolContexts :
          GetCredential(p, via, ctx, CredentialTypeDelegated)
  \/ \E p \in Procs : Return(p)
  \/ PurgeStaleClient
  \/ Tick

Spec == Init /\ [][Next]_vars

\* The credential manager on its own: getCredential callers of both kinds,
\* the application credential strategy, clearCache.
NextCred ==
  \/ \E p \in Procs, ctx \in PoolContexts,
        ctype \in {CredentialTypeApplication, CredentialTypeDelegated} :
          GetCredential(p, 0, ctx, ctype)
  \/ \E f \in 1..Len(flights), ok \in BOOLEAN : CreateInternalResume(f, ok)
  \/ \E p \in Procs : AwaitSettle(p)
  \/ \E p \in Procs : Return(p)
  \/ ClearCredentialCache
  \/ PurgeStaleCred
  \/ Tick

SpecCred == Init /\ [][NextCred]_vars

\* The credential manager with getCredential callers only (clearCache is
\* never called).
NextCredCalls ==
  \/ \E p \in Procs, ctx \in PoolContexts,
        ctype \in {CredentialTypeApplication, CredentialTypeDelegated} :
          GetCredential(p, 0, ctx, ctype)
  \/ \E f \in 1..Len(flights), ok \in BOOLEAN : CreateInternalResume(f, ok)
  \/ \E p \in Procs : AwaitSettle(p)
  \/ \E p \in Procs : Return(p)
  \/ PurgeStaleCred
  \/ Tick

SpecCredCalls == Init /\ [][NextCredCalls]_vars

\* ------------------------------------------------- the factory at work
\* A getCredential call made by the factory of client flight `via` (through
\* the credential provider getClient handed to createClient) has failed while
\* the factory is still running.
InFactoryFailure(p) ==
  /\ calls[p].pc = "done"
  /\ calls[p].op = "getCredential"
  /\ calls[p].via # 0
  /\ calls[p].res.kind = "err"
  /\ flights[calls[p].via].status = "running"

\* createClient catching the credential error and handing back a client all
\* the same, which createInternal then stores.
FactoryFailSwallowed(p) ==
  LET f == calls[p].via
      fl == flights[f]
      new == CreateInternalStore(clientCache.ents, fl.key, f, fl.options,
                                 ClientSlidingTtl, ClientMaxSize, now)
  IN /\ InFactoryFailure(p)
     /\ flights' = WithDisposals([flights EXCEPT ![f].status = "resolved"],
                                 (Values(clientCache.ents) \cup {f}) \ Values(new))
     /\ clientCache' = [clientCache EXCEPT !.ents = new]
     /\ calls' = [calls EXCEPT ![p] = IdleCall]
     /\ UNCHANGED <<now, credCache, oboCount, probe>>

\* The error of credentialProvider.getCredential leaves createClient, the
\* factory closure of getClient and `await factory()` of createInternal
\* (none of them catches): the promise of the flight rejects with it and
\* nothing is stored.
FactoryFail(p) ==
  /\ InFactoryFailure(p)
  /\ flights' = [flights EXCEPT ![calls[p].via].status = "rejected",
                                ![calls[p].via].err = calls[p].res.err]
  /\ calls' = [calls EXCEPT ![p] = IdleCall]
  /\ UNCHANGED <<now, clientCache, credCache, oboCount, probe>>

\* One request of each mode.
FactoryRequests ==
  { [mode |-> AuthModeApplication, token |-> NoToken],
    [mode |-> AuthModeDelegated, token |-> ParsedJwtToken("t", "u::user:w", 2)],
    [mode |-> AuthModeComposite, token |-> ParsedJwtToken("t", "u::user:w", 2)] }

\* The pool with factories that ask their credential provider for
\* credentials of either type while they build the client.
NextFactory ==
  \/ \E p \in Procs, req \in FactoryRequests, o \in OptionsPool : GetClient(p, req, o)
  \/ \E p \in Procs, f \in ClientFlights,
        ctype \in {CredentialTypeApplication, CredentialTypeDelegated} :
          /\ flights[f].status = "running"
          /\ GetCredential(p, f, flights[f].ctx, ctype)
  \/ \E f \in 1..Len(flights), ok \in BOOLEAN : CreateInternalResume(f, ok)
  \/ \E p \in Procs : AwaitSettle(p)
  \/ \E p \in Procs : FactoryFail(p)
  \/ \E p \in Procs : ~InFactoryFailure(p) /\ Return(p)
  \/ Tick

SpecFactory == Init /\ [][NextFactory]_vars

\* ---------------------------------------------- the pool under fairness
\* The application request, its client factory asking the credential
\* provider for the application credential while it builds the client,
\* invalidation of the client and clearCache of the credential manager, all
\* within one millisecond.
ApplicationRequest == [mode |-> AuthModeApplication, token |-> NoToken]

\* The factory of client flight f is awaiting a getCredential call it made.
AwaitingCredential(f) ==
  \E p \in Procs : calls[p].op = "getCredential" /\ calls[p].via = f

\* The factory of flight f settles: a client factory once the credential
\* call it awaits, if it made one, has returned; createInternal runs on.
FactorySettle(f) ==
  /\ f \in 1..Len(flights)
  /\ ~AwaitingCredential(f)
  /\ \E ok \in BOOLEAN : CreateInternalResume(f, ok)

NextSettle ==
  \/ \E p \in Procs :
          /\ GetClient(p, ApplicationRequest, UndefinedOptions)
          /\ Len(flights') <= MaxSettleFlights
  \/ \E p \in Procs : InvalidateClientCache(p, ApplicationRequest, UndefinedOptions)
  \/ \E p \in Procs, f \in ClientFlights :
          /\ flights[f].status = "running"
          /\ ~AwaitingCredential(f)
          /\ GetCredential(p, f, flights[f].ctx, CredentialTypeApplication)
          /\ Len(flights') <= MaxSettleFlights
  \/ \E p \in Procs :
          /\ GetCredential(p, 0, AuthContextFactory(AuthModeApplication, NoToken),
                           CredentialTypeApplication)
          /\ Len(flights') <= MaxSettleFlights
  \/ \E f \in 1..Len(flights) : FactorySettle(f)
  \/ \E p \in Procs : AwaitSettle(p)
  \/ \E p \in Procs : FactoryFail(p)
  \/ \E p \in Procs : ~InFactoryFailure(p) /\ Return(p)
  \/ ClearCredentialCache

\* Every factory settles, once it no longer waits for a credential; the
\* continuation of a call whose promise has settled runs and the caller
\* takes the outcome.  The fairness is strong where a step is enabled only
\* between the steps of other callers.
SpecSettle ==
  /\ Init /\ [][NextSettle]_vars
  /\ \A f \in 1..MaxSettleFlights : SF_vars(FactorySettle(f))
  /\ \A p \in Procs : SF_vars(AwaitSettle(p))
  /\ \A p \in Procs : WF_vars(FactoryFail(p))
  /\ \A p \in Procs : WF_vars(~InFactoryFailure(p) /\ Return(p))

\* ------------------------------------------- CacheManager called directly
\* One CacheManager, configured as the client cache is, used through its own
\* interface: getOrCreate with CacheOptions, delete, clear.
CacheKeys == {"k1", "k2", "k3"}
NoCacheOptions == [hasSliding |-> FALSE, slidingTtl |-> 0,
                   hasAbsolute |-> FALSE, absoluteTtl |-> 0]
CacheOptionsPool ==
  { NoCacheOptions,
    [NoCacheOptions EXCEPT !.hasSliding = TRUE, !.slidingTtl = 1],
    [NoCacheOptions EXCEPT !.hasAbsolute = TRUE, !.absoluteTtl = 1] }

\* CacheManager.getOrCreate(cacheKey, factory, options) up to its first
\* await; value is what the factory will build.
GetOrCreate(p, k, options, value) ==
  LET plan == GetOrCreatePlan(clientCache, k, now, ClientSlidingTtl)
      f == Len(flights) + 1
      start == [IdleCall EXCEPT !.op = "getOrCreate", !.key = k]
      dropped == Values(clientCache.ents) \ Values(plan.ents)
  IN /\ CanCall(p)
     /\ plan.kind \in {"miss", "expired"} =>
          Cardinality(ClientFlights) < MaxCacheFlights
     /\ IF DisposeEscaped(flights, dropped)
          THEN /\ clientCache' = [clientCache EXCEPT !.ents = plan.ents]
               /\ flights' = WithDisposals(flights, dropped)
               /\ calls' = [calls EXCEPT ![p] =
                    [start EXCEPT !.pc = "done", !.res = Err("DisposeError")]]
          ELSE
            /\ clientCache' = CacheAfterPlan(clientCache, k, plan, f)
            /\ CASE plan.kind = "hit" ->
                      /\ calls' = [calls EXCEPT ![p] =
                           [start EXCEPT !.pc = "done", !.res = Ok(plan.id)]]
                      /\ flights' = WithDisposals(flights, dropped)
                 [] plan.kind = "join" ->
                      /\ calls' = [calls EXCEPT ![p] =
                           [start EXCEPT !.pc = "await", !.flight = plan.id]]
                      /\ flights' = WithDisposals(flights, dropped)
                 [] OTHER ->
                      /\ calls' = [calls EXCEPT ![p] =
                           [start EXCEPT !.pc = "await", !.flight = f,
                                         !.owner = (plan.kind = "miss")]]
                      /\ flights' = Append(WithDisposals(flights, dropped),
                           NewFlightOf("client", k,
                                       AuthContextFactory(AuthModeApplication, NoToken),
                                       options, value))
     /\ UNCHANGED <<now, credCache, oboCount, probe>>

\* CacheManager.delete(cacheKey)
CacheDelete(p, k) ==
  LET ents2 == Remove(clientCache.ents, k)
      dropped == Values(clientCache.ents) \ Values(ents2)
      start == [IdleCall EXCEPT !.op = "delete", !.key = k]
  IN /\ CanCall(p)
     /\ clientCache' = [clientCache EXCEPT !.ents = ents2]
     /\ flights' = WithDisposals(flights, dropped)
     /\ calls' = [calls EXCEPT ![p] =
          [start EXCEPT !.pc = "done",
             !.res = IF DisposeEscaped(flights, dropped) THEN Err("DisposeError")
                     ELSE Ok(IF Has(clientCache.ents, k) THEN 1 ELSE 0)]]
     /\ UNCHANGED <<now, credCache, oboCount, probe>>

\* CacheManager.clear(): cache.clear disposes every entry, then
\* pendingRequests.clear.
CacheClear(p) ==
  LET dropped == Values(clientCache.ents)
      start == [IdleCall EXCEPT !.op = "clear"]
  IN /\ CanCall(p)
     /\ clientCache # EmptyCache
     /\ clientCache' = IF DisposeEscaped(flights, dropped)
                         THEN [clientCache EXCEPT !.ents = <<>>]
                         ELSE EmptyCache
     /\ flights' = WithDisposals(flights, dropped)
     /\ calls' = [calls EXCEPT ![p] =
          [start EXCEPT !.pc = "done",
             !.res = IF DisposeEscaped(flights, dropped) THEN Err("DisposeError")
                     ELSE Ok(0)]]
     /\ UNCHANGED <<now, credCache, oboCount, probe>>

\* The factories of the three keys build one kind of value each.
ValueOf(k) ==
  CASE k = "k1" -> PlainValue
    [] k = "k2" -> [hooks |-> {HookDispose}, throws |-> FALSE]
    [] OTHER -> [hooks |-> {HookAsyncDispose, HookSymbolDispose, HookDispose},
                 throws |-> TRUE]

\* The cache has one caller, which makes one call after the other.
CacheCallers == {"p1"}

NextCache ==
  \/ \E p \in CacheCallers, k \in CacheKeys, options \in CacheOptionsPool :
       GetOrCreate(p, k, options, ValueOf(k))
  \/ \E p \in CacheCallers, k \in CacheKeys : CacheDelete(p, k)
  \/ \E p \in CacheCallers : CacheClear(p)
  \/ \E f \in 1..Len(flights), ok \in BOOLEAN : CreateInternalResume(f, ok)
  \/ \E p \in CacheCallers : AwaitSettle(p)
  \/ \E p \in CacheCallers : Return(p)
  \/ PurgeStaleClient
  \/ Tick

SpecCache == Init /\ [][NextCache]_vars

\* ----------------------------------------- CacheManager, concurrent callers
\* The same CacheManager with two callers whose calls overlap, and with the
\* asynchronous disposals as steps of their own.  The callers use one key,
\* whose values have an asynchronous dispose hook; the options are none, a
\* sliding TTL of 0 and an absolute TTL of 0.
ConcurrentKeys == {"k2"}
ConcurrentOptionsPool ==
  { NoCacheOptions,
    [NoCacheOptions EXCEPT !.hasSliding = TRUE, !.slidingTtl = 0],
    [NoCacheOptions EXCEPT !.hasAbsolute = TRUE, !.absoluteTtl = 0] }

\* The promise of an asynchronous hook of the value of flight f settles;
\* disposeEntry resumes after its await and logs (or catches and logs).
DisposeSettle(f) ==
  /\ NoneDone
  /\ flights[f].settled < flights[f].hookCalls
  /\ flights' = [flights EXCEPT ![f].settled = @ + 1]
  /\ UNCHANGED <<now, clientCache, credCache, calls, oboCount, probe>>

NextConcurrent ==
  \/ \E p \in Procs, k \in ConcurrentKeys, options \in ConcurrentOptionsPool :
       GetOrCreate(p, k, options, ValueOf(k))
  \/ \E p \in Procs, k \in ConcurrentKeys : CacheDelete(p, k)
  \/ \E p \in Procs : CacheClear(p)
  \/ \E f \in 1..Len(flights), ok \in BOOLEAN : CreateInternalResume(f, ok)
  \/ \E p \in Procs : AwaitSettle(p)
  \/ \E p \in Procs : Return(p)
  \/ \E f \in 1..Len(flights) : DisposeSettle(f)
  \/ PurgeStaleClient
  \/ Tick

SpecConcurrent == Init /\ [][NextConcurrent]_vars

\* ------------------------------------------------ a refreshed assertion
\* The pool used by one user who presents an assertion and later a newer
\* one: same tenant and user, later expiry.  Delegated requests without
\* options, the client factories, and the credential provider views asked
\* for delegated credentials.
RefreshRequests ==
  { [mode |-> AuthModeDelegated, token |-> ParsedJwtToken("t", "u", exp)] :
      exp \in {1, MaxTime + 1} }

NextRefresh ==
  \/ \E p \in Procs, req \in RefreshRequests : GetClient(p, req, UndefinedOptions)
  \/ \E f \in 1..Len(flights), ok \in BOOLEAN : CreateInternalResume(f, ok)
  \/ \E p \in Procs : AwaitSettle(p)
  \/ \E p \in Procs, via \in ClientFlights :
          GetCredential(p, via, flights[via].ctx, CredentialTypeDelegated)
  \/ \E p \in Procs : Return(p)
  \/ PurgeStaleClient
  \/ Tick

SpecRefresh == Init /\ [][NextRefresh]_vars

\* ------------------------------------------------- request-aware provider
\* A JavaScript value as extractIdentity looks at it: its kind, whether it
\* is truthy, and for an Identity object the claims of its assertion.
JsValue(t, truthy) == [t |-> t, truthy |-> truthy, token |-> NoToken]
JsUndefined == JsValue("undefined", FALSE)
JsIdentity(token) == [t |-> "object", truthy |-> TRUE, token |-> token]
JsValues ==
  { JsUndefined, JsValue("null", FALSE),
    JsValue("string", TRUE), JsValue("string", FALSE),
    JsValue("number", TRUE), JsValue("number", FALSE),
    JsValue("array", TRUE),
    JsIdentity(ParsedJwtToken("t", "u", MaxTime)) }

\* typeof
TypeOf(v) == IF v.t \in {"null", "array", "object"} THEN "object" ELSE v.t

\* The requests: Record<string, unknown> with an identity property (a
\* missing property reads as undefined), a nested data.identity and an
\* endpoint.
Requests == [identity : JsValues, data : JsValues, endpoint : 1..MaxNumber]

\* extractIdentity without the Array.isArray test.
extractIdentityArrays(request) ==
  IF /\ request.identity.truthy
     /\ TypeOf(request.identity) = "object"
     /\ request.identity.t # "null"
    THEN request.identity
    ELSE JsUndefined

\* IdentityExtractor.extractIdentity
extractIdentity(request) ==
  IF /\ request.identity.truthy
     /\ TypeOf(request.identity) = "object"
     /\ request.identity.t # "null"
     /\ request.identity.t # "array"
    THEN request.identity
    ELSE JsUndefined

\* extractOptions of an extractor that has one: { endpoint: request.endpoint }
\* (the property is called "a" here).
extractOptions(request) == Obj(<< <<"a", Num(request.endpoint)>> >>)

\* AuthStrategyResolver: application without an identity, delegated with one.
AuthStrategyResolver(identity) ==
  IF identity.t = "undefined"
    THEN [mode |-> AuthModeApplication, token |-> NoToken]
    ELSE [mode |-> AuthModeDelegated, token |-> identity.token]

\* processRequest that leaves the options out.
processRequestNoOptions(request, hasExtractOptions) ==
  [authRequest |-> AuthStrategyResolver(extractIdentity(request)),
   options |-> UndefinedValue]

\* processRequest(request, requestExtractor, authStrategyResolver)
processRequest(request, hasExtractOptions) ==
  LET identity == extractIdentity(request)
      authRequest == AuthStrategyResolver(identity)
      options == IF hasExtractOptions THEN extractOptions(request)
                 ELSE UndefinedValue
  IN [authRequest |-> authRequest, options |-> options]

\* getClient(request) of the request-aware provider; the client factory has
\* no fingerprint function.
RequestAwareGetClient(p, request) ==
  LET r == processRequest(request, probe.hasExtractOptions)
  IN GetClient(p, r.authRequest, OptionsArgument(r.options, ""))

\* invalidateClientCache(request) of the request-aware provider
RequestAwareInvalidate(p, request) ==
  LET r == processRequest(request, probe.hasExtractOptions)
  IN InvalidateClientCache(p, r.authRequest, OptionsArgument(r.options, ""))

\* The requests made of the provider: without nested data, the identity
\* missing, a string, an array or an Identity.
AwareRequests ==
  { r \in Requests :
      /\ r.data = JsUndefined
      /\ r.identity.t \in {"undefined", "string", "array", "object"}
      /\ r.identity.t = "string" => r.identity.truthy }

\* The provider is built with an extractor that has extractOptions, or with
\* one that has not.
InitAware ==
  /\ now = 0
  /\ clientCache = EmptyCache
  /\ credCache = EmptyCache
  /\ flights = <<>>
  /\ calls = [p \in Procs |-> IdleCall]
  /\ oboCount = 0
  /\ probe \in [hasExtractOptions : BOOLEAN]

NextAware ==
  \/ \E p \in Procs, r \in AwareRequests : RequestAwareGetClient(p, r)
  \/ \E p \in Procs, r \in AwareRequests : RequestAwareInvalidate(p, r)
  \/ \E f \in 1..Len(flights), ok \in BOOLEAN : CreateInternalResume(f, ok)
  \/ \E p \in Procs : AwaitSettle(p)
  \/ \E p \in Procs : Return(p)
  \/ Tick

SpecAware == InitAware /\ [][NextAware]_vars

\* extractIdentity on its own, for every request.
NotExtracted == JsValue("pending", FALSE)

InitExtract ==
  /\ now = 0
  /\ clientCache = EmptyCache
  /\ credCache = EmptyCache
  /\ flights = <<>>
  /\ calls = [p \in Procs |-> IdleCall]
  /\ oboCount = 0
  /\ probe \in [request : Requests, extracted : {NotExtracted}]

ExtractIdentity ==
  /\ probe.extracted = NotExtracted
  /\ probe' = [probe EXCEPT !.extracted = extractIdentity(probe.request)]
  /\ UNCHANGED <<now, clientCache, credCache, flights, calls, oboCount>>

NextExtract == ExtractIdentity

SpecExtract == InitExtract /\ [][NextExtract]_vars

\* -------------------------------------------------- ConfigurationManager
\* Two managers, each with its own source.  Of a manager the model keeps
\* configPromise (none while the field is undefined, else the state of the
\* promise), the number of source.load calls, and the configuration the
\* promise resolved to, the one that the load with that number returned, or
\* the error it rejected with.
Managers == {"m1", "m2"}
NoManager == [configPromise |-> "none", loads |-> 0, config |-> 0,
              error |-> NoResult]

\* getConfiguration and the getters that await it and hand out a part of
\* the configuration.
ConfigMethods ==
  {"getConfiguration", "getApplicationAuthConfig", "getDelegatedAuthConfig",
   "getJwtConfig", "getClientManagerConfig"}

\* getConfiguration that loads again after a failed load.
ConfigPromiseUnsetOrFailed(manager) ==
  manager.configPromise \in {"none", "rejected"}

\* getConfiguration that does not look at configPromise.
ConfigPromiseUnsetAlways(manager) == TRUE

\* !this.configPromise
ConfigPromiseUnset(manager) == manager.configPromise = "none"

InitConfig ==
  /\ now = 0
  /\ clientCache = EmptyCache
  /\ credCache = EmptyCache
  /\ flights = <<>>
  /\ calls = [p \in Procs |-> IdleCall]
  /\ oboCount = 0
  /\ probe = [m \in Managers |-> NoManager]

\* getConfiguration() up to `return this.configPromise`: the first call
\* runs loadAndValidateConfig, which calls source.load before it awaits.
GetConfiguration(p, m) ==
  /\ CanCall(p)
  /\ probe' = IF ConfigPromiseUnset(probe[m])
                THEN [probe EXCEPT ![m].configPromise = "pending",
                                   ![m].loads = @ + 1]
                ELSE probe
  /\ calls' = [calls EXCEPT ![p] =
       [IdleCall EXCEPT !.op = "getConfiguration", !.key = m, !.pc = "await"]]
  /\ UNCHANGED <<now, clientCache, credCache, flights, oboCount>>

\* getApplicationAuthConfig, getDelegatedAuthConfig, getJwtConfig and
\* getClientManagerConfig up to `await this.getConfiguration()`.
GetConfigSection(p, m, method) ==
  /\ CanCall(p)
  /\ probe' = IF ConfigPromiseUnset(probe[m])
                THEN [probe EXCEPT ![m].configPromise = "pending",
                                   ![m].loads = @ + 1]
                ELSE probe
  /\ calls' = [calls EXCEPT ![p] =
       [IdleCall EXCEPT !.op = method, !.key = m, !.pc = "await"]]
  /\ UNCHANGED <<now, clientCache, credCache, flights, oboCount>>

\* loadAndValidateConfig after `await this.source.load()`: the load fails,
\* or configSchema.parse or validate throws, or the configuration is
\* returned.
LoadAndValidateConfig(m, outcome) ==
  /\ probe[m].configPromise = "pending"
  /\ probe' = IF outcome = "ok"
                THEN [probe EXCEPT ![m].configPromise = "resolved",
                                   ![m].config = probe[m].loads]
                ELSE [probe EXCEPT ![m].configPromise = "rejected",
                                   ![m].error = Thrown(probe[m].loads, outcome)]
  /\ UNCHANGED <<now, clientCache, credCache, flights, calls, oboCount>>

\* The caller of getConfiguration gets what configPromise settled to; a
\* getter resumes with it and returns the part it builds from the
\* configuration, or throws the error of the promise on.
ConfigurationSettle(p) ==
  LET m == calls[p].key
  IN /\ calls[p].op \in ConfigMethods /\ calls[p].pc = "await"
     /\ probe[m].configPromise \in {"resolved", "rejected"}
     /\ calls' = [calls EXCEPT ![p].pc = "done",
          ![p].res = IF probe[m].configPromise = "resolved"
                       THEN Ok(probe[m].config) ELSE probe[m].error]
     /\ UNCHANGED <<now, clientCache, credCache, flights, oboCount, probe>>

NextConfig ==
  \/ \E p \in Procs, m \in Managers : GetConfiguration(p, m)
  \/ \E p \in Procs, m \in Managers,
        method \in ConfigMethods \ {"getConfiguration"} :
          GetConfigSection(p, m, method)
  \/ \E m \in Managers, outcome \in {"ok", "loadError", "invalid"} :
       LoadAndValidateConfig(m, outcome)
  \/ \E p \in Procs : ConfigurationSettle(p)
  \/ \E p \in Procs : Return(p)

SpecConfig == InitConfig /\ [][NextConfig]_vars

\* The customTtl computation of getClient on its own: any clock value, any
\* assertion expiry, any configured buffer.
InitTtl ==
  /\ now \in 0..MaxTime
  /\ clientCache = EmptyCache
  /\ credCache = EmptyCache
  /\ flights = <<>>
  /\ calls = [p \in Procs |-> IdleCall]
  /\ oboCount = 0
  /\ probe \in [expiresAt : 0..MaxProbeExpiry, bufferMs : 0..MaxProbeBuffer,
                customTtl : {0}]

\* getClient lines 54-66 for a token-bound context: the expiry check, then
\* customTtl.
ComputeCustomTtl ==
  LET authContext == [mode |-> AuthModeDelegated, tenantId |-> "t",
                      userObjectId |-> "u", expiresAt |-> probe.expiresAt]
  IN /\ probe.customTtl = 0
     /\ ~TokenHasExpired(authContext, now)
     /\ probe' = [probe EXCEPT !.customTtl =
                     CustomTtl(probe.expiresAt, now, probe.bufferMs)]
     /\ UNCHANGED <<now, clientCache, credCache, flights, calls, oboCount>>

NextTtl == ComputeCustomTtl

SpecTtl == InitTtl /\ [][NextTtl]_vars

\* The cache keys of two getClient calls on their own: any two auth
\* contexts, any two options values, any fingerprints the factory may return
\* for them.
KeyContexts ==
  { AuthContextFactory(AuthModeApplication, NoToken),
    AuthContextFactory(AuthModeDelegated, ParsedJwtToken("t", "u", MaxTime)) }
Fingerprints == {"", "f1", "f2"}

InitKey ==
  /\ now = 0
  /\ clientCache = EmptyCache
  /\ credCache = EmptyCache
  /\ flights = <<>>
  /\ calls = [p \in Procs |-> IdleCall]
  /\ oboCount = 0
  /\ probe \in [ctx1 : KeyContexts, ctx2 : KeyContexts,
                options1 : OptionsValues, options2 : OptionsValues,
                fingerprint1 : Fingerprints, fingerprint2 : Fingerprints,
                key1 : {""}, key2 : {""}]

\* getClient lines 47-48 for each of the two requests.
GenerateCacheKeys ==
  /\ probe.key1 = ""
  /\ probe' = [probe EXCEPT
       !.key1 = ClientCacheKey(probe.ctx1,
                  OptionsArgument(probe.options1, probe.fingerprint1)),
       !.key2 = ClientCacheKey(probe.ctx2,
                  OptionsArgument(probe.options2, probe.fingerprint2))]
  /\ UNCHANGED <<now, clientCache, credCache, flights, calls, oboCount>>

NextKey == GenerateCacheKeys

SpecKey == InitKey /\ [][NextKey]_vars

TypeOK ==
  /\ now \in 0..MaxTime
  /\ Cardinality(ClientFlights) <= Max2(MaxClientFlights, MaxCacheFlights)
  /\ Cardinality(CredFlights) <= MaxCredFlights
  /\ Len(clientCache.ents) <= ClientMaxSize
  /\ Len(credCache.ents) <= CredMaxSize
  /\ oboCount \in 0..MaxObo

\* ------------------------------------------------------------------ claims
\* The getClient call a caller is in, or has just got its outcome of.
CallKey(c) == ClientCacheKey(AuthContextFactory(c.mode, c.token), c.options)

KeyFlights(k) == { f \in ClientFlights : flights[f].key = k }

Served(c) == c.op = "getClient" /\ c.pc = "done" /\ c.res.kind = "ok"

\* C1: concurrent getClient calls with the same request and options on an
\* empty cache share one factory invocation: as long as no client built for
\* the key has failed to build or been dropped from the cache, exactly one
\* factory invocation exists for the key, and every caller waits for it or
\* has received the client it built.
C1_SingleFlight ==
  \A p \in Procs :
    LET c == calls[p]
        fs == KeyFlights(CallKey(c))
    IN ( /\ c.op = "getClient"
         /\ c.pc = "await" \/ Served(c)
         /\ \A f \in fs : flights[f].status # "rejected" /\ flights[f].disposed = 0 )
       => /\ Cardinality(fs) = 1
          /\ c.pc = "await" => c.flight \in fs
          /\ c.pc = "done" => c.res.id \in fs

\* Two callers of the same request: one has received the client of the only
\* factory invocation, the other is about to receive the same one.
C1_Witness ==
  \E p, q \in Procs :
    /\ p # q
    /\ Served(calls[p])
    /\ calls[q].op = "getClient" /\ calls[q].pc = "await"
    /\ calls[q].mode = calls[p].mode /\ calls[q].token = calls[p].token
    /\ calls[q].options = calls[p].options
    /\ calls[q].flight = calls[p].res.id
    /\ KeyFlights(CallKey(calls[p])) = { calls[p].res.id }
    /\ flights[calls[p].res.id].disposed = 0

\* C2: for every key of a cache manager, at most one factory invocation is
\* in flight at any time.
C2_AtMostOneInFlight ==
  \A f, g \in 1..Len(flights) :
    ( /\ flights[f].status = "running" /\ flights[g].status = "running"
      /\ flights[f].cache = flights[g].cache
      /\ flights[f].key = flights[g].key )
    => f = g

\* C3: getCredential(Application) callers alone (no clearCache) never have
\* the application credential strategy at work more than once at a time,
\* on an empty cache as well as past the absolute TTL of the cached credential.
C3_OneConstruction ==
  Cardinality(InFlight("cred", ApplicationCredentialKey)) <= 1

\* C4: a client built for a token-bound request with assertion expiry E is
\* not served from the cache at or after E - bufferMs.
C4_NotServedPastDeadline ==
  \A p \in Procs :
    LET c == calls[p]
    IN ( /\ Served(c)
         /\ c.flight = 0
         /\ flights[c.res.id].ctx.mode # AuthModeApplication )
       => now < flights[c.res.id].ctx.expiresAt - ClientBufferMs

\* C5 as stated: the custom TTL is strictly less than the remaining lifetime
\* of the assertion, for every bufferMs >= 0 and remaining lifetime >= 1.
C5_StrictlyBelowRemaining ==
  probe.customTtl # 0 => probe.customTtl < probe.expiresAt - now

\* C5 as the code has it: the custom TTL never exceeds the remaining
\* lifetime, and is strictly less when bufferMs >= 1 and the remaining
\* lifetime is at least 2 ms.
C5_AtMostRemaining ==
  probe.customTtl # 0 =>
    /\ probe.customTtl <= probe.expiresAt - now
    /\ (probe.bufferMs >= 1 /\ probe.expiresAt - now >= 2)
         => probe.customTtl < probe.expiresAt - now

C5_Witness ==
  /\ probe.customTtl # 0
  /\ probe.bufferMs >= 1
  /\ probe.expiresAt - now >= 2
  /\ probe.customTtl < probe.expiresAt - now

\* C6: a token-bound getClient caller only ever receives a client that was
\* built for its own (tenantId, userObjectId) pair.
C6_OwnPairOnly ==
  \A p \in Procs :
    LET c == calls[p]
    IN (Served(c) /\ c.mode # AuthModeApplication)
       => /\ flights[c.res.id].ctx.tenantId = c.token.tenantId
          /\ flights[c.res.id].ctx.userObjectId = c.token.userObjectId

\* A getCredential call made in this step.
CredentialCall(p, ctype) ==
  /\ calls[p].pc = "idle"
  /\ calls'[p].op = "getCredential"
  /\ calls'[p].ctype = ctype

C8_ModeMismatch ==
  [][ \A p \in Procs :
        /\ ( /\ CredentialCall(p, CredentialTypeDelegated)
             /\ calls'[p].mode = AuthModeApplication )
           => /\ calls'[p].pc = "done"
              /\ calls'[p].res = Err("AuthModeMismatch")
              /\ UNCHANGED <<oboCount, credCache, flights>>
        /\ CredentialCall(p, CredentialTypeApplication)
           => /\ calls'[p].res.kind # "err"
              /\ calls'[p].pc = "await" \/ calls'[p].res.kind = "ok"
              /\ UNCHANGED oboCount ]_vars

\* An Application context has been refused a delegated credential, and a
\* token-bound context is being served the application credential.
C8_Witness ==
  \E p, q \in Procs :
    /\ calls[p].op = "getCredential" /\ calls[p].ctype = CredentialTypeDelegated
    /\ calls[p].mode = AuthModeApplication
    /\ calls[p].res = Err("AuthModeMismatch")
    /\ calls[q].op = "getCredential" /\ calls[q].ctype = CredentialTypeApplication
    /\ calls[q].mode = AuthModeDelegated
    /\ calls[q].pc = "await"

\* C9: getClient for a well-formed token-bound request whose assertion has
\* expiresAt <= now rejects with the token-expired error, starts no factory
\* invocation, invokes no credential strategy and leaves the client cache as
\* it was.
C9_ExpiredRejected ==
  [][ \A p \in Procs :
        ( /\ calls[p].pc = "idle"
          /\ calls'[p].op = "getClient"
          /\ calls'[p].mode # AuthModeApplication
          /\ validateAuthContext(AuthContextFactory(calls'[p].mode, calls'[p].token)) = "ok"
          /\ calls'[p].token.expiresAt <= now )
        => /\ calls'[p].pc = "done"
           /\ calls'[p].res = Err("TokenExpired")
           /\ UNCHANGED <<clientCache, credCache, flights, oboCount>> ]_vars

\* An expired request has been rejected while the client cached for its key
\* is still in the cache.
C9_Witness ==
  \E p \in Procs :
    /\ calls[p].op = "getClient" /\ calls[p].pc = "done"
    /\ calls[p].res = Err("TokenExpired")
    /\ Has(clientCache.ents, CallKey(calls[p]))
    /\ Lookup(clientCache.ents, CallKey(calls[p])).exp > now

\* C10: getCredential(ctx, Delegated) with a token-bound context whose
\* assertion has expiresAt <= now fails with the token-expired error and
\* builds no credential, whether called directly or through the credential
\* provider of a client.
C10_ExpiredAssertion ==
  [][ \A p \in Procs :
        ( /\ CredentialCall(p, CredentialTypeDelegated)
          /\ calls'[p].mode # AuthModeApplication
          /\ calls'[p].token.expiresAt <= now )
        => /\ calls'[p].pc = "done"
           /\ calls'[p].res = Err("TokenExpired")
           /\ UNCHANGED oboCount ]_vars

\* The credential provider of a client that was built while the assertion
\* was valid, and is still cached, has been refused once the assertion expired.
C10_Witness ==
  \E p \in Procs :
    /\ calls[p].op = "getCredential" /\ calls[p].ctype = CredentialTypeDelegated
    /\ calls[p].via # 0
    /\ calls[p].res = Err("TokenExpired")
    /\ flights[calls[p].via].status = "resolved"
    /\ calls[p].via \in Values(clientCache.ents)

\* A getClient call made in this step.
ClientCall(p) == calls[p].pc = "idle" /\ calls'[p].op = "getClient"

\* C11: getClient rejects a token-bound request with an empty tenantId with
\* the missing-tenant error and one with an empty userObjectId with the
\* missing-user error, starting no factory invocation and leaving the caches
\* as they were; an Application request is never refused by validation.
C11_Validation ==
  [][ \A p \in Procs :
        ClientCall(p) =>
          /\ ( calls'[p].mode # AuthModeApplication /\ calls'[p].token.tenantId = "" )
             => /\ calls'[p].pc = "done"
                /\ calls'[p].res = Err("MissingTenant")
                /\ UNCHANGED <<clientCache, credCache, flights, oboCount>>
          /\ ( /\ calls'[p].mode # AuthModeApplication
               /\ calls'[p].token.tenantId # ""
               /\ calls'[p].token.userObjectId = "" )
             => /\ calls'[p].pc = "done"
                /\ calls'[p].res = Err("MissingUser")
                /\ UNCHANGED <<clientCache, credCache, flights, oboCount>>
          /\ calls'[p].mode = AuthModeApplication
             => calls'[p].pc = "await" \/ calls'[p].res.kind = "ok" ]_vars

\* A request without userObjectId has been refused while a client is cached
\* and an Application request is being served.
C11_Witness ==
  \E p, q \in Procs :
    /\ calls[p].op = "getClient" /\ calls[p].res = Err("MissingUser")
    /\ calls[p].token.userObjectId = ""
    /\ calls[q].op = "getClient" /\ calls[q].mode = AuthModeApplication
    /\ calls[q].pc = "await"
    /\ Len(clientCache.ents) >= 1

\* A caller that awaited flight f gets its outcome in this step.
Settles(p, f) ==
  calls[p].pc = "await" /\ calls[p].flight = f /\ calls'[p].pc = "done"

\* C12: when the factory invoked for a key fails, every caller waiting for
\* that invocation receives the error it threw, the failed invocation leaves
\* no entry in the cache, and once the caller that started it has got the
\* error the pending marker is gone: the next getClient for the key finds
\* neither entry nor marker and invokes the factory again.
C12_FactoryFailure ==
  [][ \A p \in Procs : \A f \in ClientFlights :
        (Settles(p, f) /\ flights[f].status = "rejected")
        => /\ calls'[p].res = Thrown(f, flights[f].err)
           /\ f \notin Values(clientCache'.ents)
           /\ calls[p].owner =>
                GetOrCreatePlan(clientCache', flights[f].key, now,
                                ClientSlidingTtl).kind = "miss" ]_vars

\* The caller that started a failed invocation has received its error and a
\* second caller, coalesced onto the same invocation, is about to.
C12_Witness ==
  \E p, q \in Procs :
    /\ p # q
    /\ calls[p].op = "getClient" /\ calls[p].pc = "done" /\ calls[p].owner
    /\ calls[p].res = Thrown(calls[p].flight, "FactoryFailure")
    /\ calls[q].op = "getClient" /\ calls[q].pc = "await"
    /\ calls[q].flight = calls[p].flight
    /\ ~PendingHas(clientCache, flights[calls[p].flight].key)

\* What a failed credential acquisition throws.
CredentialErrors == { "StrategyFailure", "TokenExpired", "AuthModeMismatch" }

\* C13: when credential acquisition fails inside the client factory, the
\* factory invocation fails with that error and stores nothing; every
\* getClient caller waiting for it receives that error; no failed
\* credential construction is in the credential cache; and once the caller
\* that started the invocation has got the error, the next getClient for
\* the key invokes the factory again.
C13_CredentialFailure ==
  [][ /\ \A p \in Procs :
          (InFactoryFailure(p) /\ calls'[p].pc = "idle")
          => /\ flights'[calls[p].via].status = "rejected"
             /\ flights'[calls[p].via].err = calls[p].res.err
             /\ UNCHANGED <<clientCache, credCache>>
      /\ \A p \in Procs : \A f \in ClientFlights :
          ( /\ Settles(p, f)
            /\ flights[f].status = "rejected"
            /\ flights[f].err \in CredentialErrors )
          => /\ calls'[p].res = Thrown(f, flights[f].err)
             /\ f \notin Values(clientCache'.ents)
             /\ calls[p].owner =>
                  GetOrCreatePlan(clientCache', flights[f].key, now,
                                  ClientSlidingTtl).kind = "miss"
      /\ \A g \in CredFlights :
          flights[g].status = "rejected" => g \notin Values(credCache.ents) ]_vars

\* After a factory invocation failed with the error of the application
\* credential strategy, a later getClient for the same key has invoked the
\* factory again and that factory has invoked the strategy again.
C13_Witness ==
  \E f1, f2 \in ClientFlights : \E g1, g2 \in CredFlights :
    /\ g1 < f2 /\ f2 < g2
    /\ flights[f1].status = "rejected" /\ flights[f1].err = "StrategyFailure"
    /\ flights[g1].status = "rejected"
    /\ flights[f2].key = flights[f1].key /\ flights[f2].status = "running"
    /\ flights[g2].status = "running"
    /\ \E p \in Procs : calls[p].op = "getCredential" /\ calls[p].via = f2
                         /\ calls[p].flight = g2 /\ calls[p].pc = "await"

\* The client cache holds, unexpired, the client that was built for the
\* request (context and options) of call record c.
CachedFor(c) ==
  LET k == CallKey(c)
  IN /\ Has(clientCache.ents, k)
     /\ Lookup(clientCache.ents, k).exp > now
     /\ flights[Lookup(clientCache.ents, k).value].ctx =
          AuthContextFactory(c.mode, c.token)

\* The call of p made in this step is served the cached client and starts no
\* factory invocation.
ServedFromCache(p) ==
  /\ calls'[p].pc = "done"
  /\ calls'[p].res = Ok(Lookup(clientCache.ents, CallKey(calls'[p])).value)
  /\ Len(flights') = Len(flights)

InvalidateCall(p) == calls[p].pc = "idle" /\ calls'[p].op = "invalidate"

WellFormed(c) == validateAuthContext(AuthContextFactory(c.mode, c.token)) = "ok"

\* No caller that started a factory invocation which has settled is still to
\* run its finally block (the continuation of `await promise`, queued the
\* moment the promise settled, runs before any call made afterwards).
NoSettledPending ==
  \A k \in DOMAIN clientCache.pending :
    flights[clientCache.pending[k]].status = "running"

\* C15: invalidateClientCache returns true exactly when the client cache
\* holds an entry for the key of the request; it then removes that entry and
\* no other (the client is handed to dispose), so that the next getClient
\* for the key finds nothing and invokes the factory; when there is no entry
\* it returns false and changes nothing.
C15_Invalidate ==
  [][ \A p \in Procs :
        (InvalidateCall(p) /\ WellFormed(calls'[p])) =>
          LET k == CallKey(calls'[p])
          IN /\ calls'[p].pc = "done"
             /\ UNCHANGED <<credCache, oboCount>>
             /\ Has(clientCache.ents, k) =>
                  /\ calls'[p].res = Ok(1)
                  /\ clientCache'.ents = Remove(clientCache.ents, k)
                  /\ ~Has(clientCache'.ents, k)
                  /\ flights'[Lookup(clientCache.ents, k).value].disposed =
                       flights[Lookup(clientCache.ents, k).value].disposed + 1
                  /\ NoSettledPending =>
                       GetOrCreatePlan(clientCache', k, now, ClientSlidingTtl).kind = "miss"
             /\ ~Has(clientCache.ents, k) =>
                  /\ calls'[p].res = Ok(0)
                  /\ UNCHANGED <<clientCache, flights>> ]_vars

\* An invalidation has returned true: the entry of its key is gone, another
\* key's entry is still there.
C15_Witness ==
  \E p \in Procs :
    /\ calls[p].op = "invalidate" /\ calls[p].pc = "done" /\ calls[p].res = Ok(1)
    /\ ~Has(clientCache.ents, CallKey(calls[p]))
    /\ Len(clientCache.ents) = 1
    /\ NoSettledPending
    /\ \E f \in KeyFlights(CallKey(calls[p])) : flights[f].disposed = 1

\* getClient rejects the request of call record c before it reaches the cache.
RejectedByGetClient(c) ==
  \/ ~WellFormed(c)
  \/ c.mode # AuthModeApplication /\ TokenHasExpired(AuthContextFactory(c.mode, c.token), now)

\* C16: invalidateClientCache rejects every request that getClient rejects
\* in validation (empty tenantId, empty userObjectId, assertion with
\* expiresAt <= now) and removes no entry for it.
C16_SameValidation ==
  [][ \A p \in Procs :
        (InvalidateCall(p) /\ RejectedByGetClient(calls'[p]))
        => /\ calls'[p].res.kind = "err"
           /\ UNCHANGED <<clientCache, flights>> ]_vars

\* C17: once invalidateClientCache has returned, no factory invocation for
\* the key that began before it can still deliver its client: a getClient
\* starting now finds neither an entry nor a pending promise and invokes the
\* factory, and no earlier invocation for the key is still running (it would
\* store its client when it resolves).
C17_FreshAfterInvalidate ==
  [][ \A p \in Procs :
        (InvalidateCall(p) /\ WellFormed(calls'[p]) /\ NoSettledPending) =>
          LET k == CallKey(calls'[p])
          IN /\ GetOrCreatePlan(clientCache', k, now, ClientSlidingTtl).kind = "miss"
             /\ \A f \in KeyFlights(k) : flights'[f].status # "running" ]_vars

\* Deep equality of two options values, the order of keys left aside.
RECURSIVE Canonical(_)
Canonical(v) ==
  IF v.t = "obj"
    THEN [t |-> "obj", n |-> 0,
          props |-> { <<v.props[i][1], Canonical(v.props[i][2])>> : i \in DOMAIN v.props }]
    ELSE [t |-> v.t, n |-> v.n, props |-> {}]

DeepEqual(a, b) == Canonical(a) = Canonical(b)

KeysGenerated == probe.key1 # ""
NoFingerprint == probe.fingerprint1 = "" /\ probe.fingerprint2 = ""

\* C18: without a fingerprint, two options values that are deeply equal up
\* to the order of keys at every depth give, under the same auth context,
\* the same cache key.
C18_EqualOptionsShare ==
  (/\ KeysGenerated /\ NoFingerprint
   /\ probe.ctx1 = probe.ctx2
   /\ DeepEqual(probe.options1, probe.options2))
  => probe.key1 = probe.key2

\* Two objects that list the same properties in another order, at the top
\* and inside a nested object, have been given one key.
C18_Witness ==
  /\ KeysGenerated /\ NoFingerprint
  /\ probe.ctx1 = probe.ctx2
  /\ DeepEqual(probe.options1, probe.options2)
  /\ ObjectKeys(probe.options1) = <<"a", "b">>
  /\ ObjectKeys(probe.options2) = <<"b", "a">>
  /\ ObjectKeys(PropOf(probe.options1, "a")) = <<"a">>
  /\ probe.key1 = probe.key2

\* C19: without a fingerprint, two options values that are not deeply equal
\* give, under the same auth context, different cache keys.
C19_DistinctOptionsDiffer ==
  (/\ KeysGenerated /\ NoFingerprint
   /\ probe.ctx1 = probe.ctx2
   /\ ~DeepEqual(probe.options1, probe.options2))
  => probe.key1 # probe.key2

\* C20: when the factory returns a non-empty fingerprint for both options
\* values, the two keys are equal exactly when the auth contexts and the
\* fingerprints are, whatever the options values are.
C20_FingerprintAlone ==
  (/\ KeysGenerated
   /\ probe.options1 # UndefinedValue /\ probe.options2 # UndefinedValue
   /\ probe.fingerprint1 # "" /\ probe.fingerprint2 # "")
  => (probe.key1 = probe.key2
        <=> (probe.ctx1 = probe.ctx2 /\ probe.fingerprint1 = probe.fingerprint2))

\* Options that differ, with one fingerprint, under one auth context, have
\* been given one key.
C20_Witness ==
  /\ KeysGenerated
  /\ probe.options1 # UndefinedValue /\ probe.options2 # UndefinedValue
  /\ ~DeepEqual(probe.options1, probe.options2)
  /\ probe.fingerprint1 = "f1" /\ probe.fingerprint2 = "f1"
  /\ probe.ctx1 = probe.ctx2
  /\ probe.key1 = probe.key2

\* The request of call record c is token-bound, passes validation and the
\* expiry check, and its remaining lifetime minus bufferMs is not positive.
NoLifetimeLeft(c) ==
  /\ c.mode # AuthModeApplication
  /\ WellFormed(c)
  /\ ~TokenHasExpired(AuthContextFactory(c.mode, c.token), now)
  /\ (c.token.expiresAt - now) - ClientBufferMs <= 0

\* C21: a getClient call for a request with no lifetime left beyond the
\* buffer invokes the factory (it is neither served from the cache nor
\* joined to an earlier invocation), and the client it builds is not stored:
\* createInternal leaves the number of entries as it is.
C21_BuiltNotCached ==
  [][ \A p \in Procs :
        (ClientCall(p) /\ NoLifetimeLeft(calls'[p])) =>
          LET f == calls'[p].flight
          IN /\ calls'[p].pc = "await"
             /\ f = Len(flights) + 1
             /\ Len(CreateInternalStore(clientCache'.ents, flights'[f].key, f,
                                        flights'[f].options, ClientSlidingTtl,
                                        ClientMaxSize, now))
                  = Len(clientCache.ents) ]_vars

\* The value of flight f is in the cache it was built for.
Present(f) ==
  f \in Values(IF flights[f].cache = "client" THEN clientCache.ents ELSE credCache.ents)

\* C22: a value with a disposal hook that has been stored and is no longer
\* in the cache, whatever removed it, has had exactly one hook called
\* exactly once; a value that is in the cache, or was never stored, has had
\* none called; a value without hooks never has.
C22_DisposedOnce ==
  \A f \in 1..Len(flights) :
    LET fl == flights[f]
    IN /\ fl.value.hooks = {} => fl.hookCalls = 0
       /\ Present(f) => fl.hookCalls = 0
       /\ fl.status # "resolved" => fl.hookCalls = 0
       /\ (fl.value.hooks # {} /\ fl.status = "resolved" /\ ~Present(f))
            => fl.hookCalls = 1

\* A value that has three hooks has been dropped and disposed while another
\* value with a hook is still cached.
C22_Witness ==
  \E f, g \in ClientFlights :
    /\ Cardinality(flights[f].value.hooks) = 3
    /\ flights[f].status = "resolved" /\ ~Present(f)
    /\ flights[f].hookCalls = 1
    /\ flights[g].value.hooks # {} /\ Present(g)
    /\ flights[g].hookCalls = 0

\* C23: no call fails because a disposal hook threw: delete and clear return
\* as they do without the throw, getOrCreate and createInternal fail only
\* when the factory does, and the value whose hook threw is gone from the
\* cache like any other.
C23_DisposalErrorsSwallowed ==
  /\ \A p \in Procs :
       /\ calls[p].res.err # "DisposeError"
       /\ (calls[p].op \in {"delete", "clear"} /\ calls[p].pc = "done")
            => calls[p].res.kind = "ok"
       /\ (calls[p].op = "delete" /\ calls[p].pc = "done")
            => ~Has(clientCache.ents, calls[p].key)
       /\ (calls[p].op = "clear" /\ calls[p].pc = "done")
            => clientCache = EmptyCache
  /\ \A f \in 1..Len(flights) :
       /\ flights[f].err # "DisposeError"
       /\ (flights[f].value.throws /\ flights[f].hookCalls > 0) => ~Present(f)

\* delete has returned true for the key of a value whose hook threw.
C23_Witness ==
  \E p \in Procs, f \in ClientFlights :
    /\ calls[p].op = "delete" /\ calls[p].pc = "done" /\ calls[p].res = Ok(1)
    /\ flights[f].key = calls[p].key
    /\ flights[f].value.throws /\ flights[f].hookCalls = 1
    /\ ~Has(clientCache.ents, calls[p].key)

\* A getOrCreate call made in this step was served from the cache.
CacheHit(p) ==
  /\ calls[p].pc = "idle"
  /\ calls'[p].op = "getOrCreate" /\ calls'[p].pc = "done"
  /\ calls'[p].res.kind = "ok"

\* The sliding TTL an entry was stored with: the one in the CacheOptions of
\* the call that built it, the default of the cache otherwise.
OwnSlidingTtl(f) ==
  IF flights[f].options.hasSliding THEN flights[f].options.slidingTtl
  ELSE CacheTtlOf(flights[f].cache)

\* C24: a getOrCreate hit restarts the deadline of the entry at now plus the
\* sliding TTL the entry was stored with.
C24_SlidingRestart ==
  [][ \A p \in Procs :
        CacheHit(p) =>
          Lookup(clientCache'.ents, calls'[p].key).exp
            = now + OwnSlidingTtl(calls'[p].res.id) ]_vars

\* The entries of the cache flight f belongs to.
EntsOf(f) == IF flights[f].cache = "client" THEN clientCache.ents ELSE credCache.ents

\* A call made in this step was served the cached value of a CacheManager.
ServedCached(p) ==
  /\ calls[p].pc = "idle" /\ calls'[p].pc = "done" /\ calls'[p].res.kind = "ok"
  /\ \/ calls'[p].op = "getOrCreate"
     \/ calls'[p].op = "getCredential" /\ calls'[p].ctype = CredentialTypeApplication

\* C25: a value served from the cache was created less than its absoluteTtl
\* ago, however often it has been served before; and an entry stored with an
\* absoluteTtl gets the earlier of the two deadlines.
C25_AbsoluteDeadline ==
  [][ /\ \A p \in Procs :
           ServedCached(p) =>
             LET f == calls'[p].res.id
                 e == Lookup(EntsOf(f), flights[f].key)
                 createdAt == e.absExp - flights[f].options.absoluteTtl
             IN /\ e.value = f
                /\ flights[f].options.hasAbsolute =>
                     /\ e.absExp # NoAbs
                     /\ now - createdAt < flights[f].options.absoluteTtl
      /\ \A f \in 1..Len(flights) :
           (/\ flights[f].status = "running" /\ flights'[f].status = "resolved"
            /\ flights[f].options.hasAbsolute
            /\ Present(f)')
           => LET e == Lookup(EntsOf(f)', flights[f].key)
                  o == flights[f].options
              IN /\ e.absExp = now + o.absoluteTtl
                 /\ e.exp = now + (IF OwnSlidingTtl(f) < o.absoluteTtl
                                     THEN OwnSlidingTtl(f) ELSE o.absoluteTtl) ]_vars

\* An entry past its absolute deadline is still held by the ttl cache (a hit
\* restarted its sliding TTL), and the caller that found it waits for a
\* factory invocation of its own.
C25_Witness ==
  \E p \in Procs :
    /\ calls[p].op = "getOrCreate" /\ calls[p].pc = "await"
    /\ flights[calls[p].flight].status = "running"
    /\ Has(clientCache.ents, calls[p].key)
    /\ Lookup(clientCache.ents, calls[p].key).absExp # NoAbs
    /\ Lookup(clientCache.ents, calls[p].key).absExp <= now
    /\ Lookup(clientCache.ents, calls[p].key).exp > now
    /\ Lookup(clientCache.ents, calls[p].key).value # calls[p].flight

\* createInternal stores the value of flight f in this step.
StoredNow(f) == flights[f].status = "running" /\ flights'[f].status = "resolved"

\* C26: a cache never holds more than maxSize entries, and the entry that
\* makes room for a new entry is the least recently used one, hence never
\* the entry that is being stored.
C26_EvictsLeastRecentlyUsed ==
  [][ /\ Len(clientCache'.ents) <= ClientMaxSize
      /\ Len(credCache'.ents) <= CredMaxSize
      /\ \A f \in 1..Len(flights) :
           (StoredNow(f) /\ Len(EntsOf(f)) = CacheMaxOf(flights[f].cache)
                         /\ ~Has(EntsOf(f), flights[f].key))
           => Present(f)' ]_vars

\* C27: a getClient(r) or invalidateClientCache(r) step of the request-aware
\* provider is the step of the underlying provider for the auth request the
\* resolver gives for the extracted identity and for the extracted options
\* (undefined without extractOptions); and invalidateClientCache(r) returns
\* true while the client that getClient(r) built is cached.
C27_Composition ==
  [][ \A p \in Procs, r \in AwareRequests :
        LET authRequest == AuthStrategyResolver(extractIdentity(r))
            options == OptionsArgument(
                         IF probe.hasExtractOptions THEN extractOptions(r)
                         ELSE UndefinedValue, "")
            k == ClientCacheKey(AuthContextFactory(authRequest.mode, authRequest.token),
                                options)
        IN /\ (ClientCall(p) /\ RequestAwareGetClient(p, r))
                => GetClient(p, authRequest, options)
           /\ (InvalidateCall(p) /\ RequestAwareInvalidate(p, r)) =>
                /\ InvalidateClientCache(p, authRequest, options)
                /\ Has(clientCache.ents, k) => calls'[p].res = Ok(1) ]_vars

\* With an extractor that has extractOptions, a client built for a request
\* with an identity has been invalidated: true was returned.
C27_Witness ==
  \E p \in Procs :
    /\ probe.hasExtractOptions
    /\ calls[p].op = "invalidate" /\ calls[p].pc = "done" /\ calls[p].res = Ok(1)
    /\ calls[p].mode = AuthModeDelegated
    /\ calls[p].options.defined
    /\ \E f \in KeyFlights(CallKey(calls[p])) :
         flights[f].status = "resolved" /\ flights[f].disposed = 1

\* C30: extractIdentity returns request.identity when it is an object that
\* is neither null nor an array, and undefined when the property is missing,
\* null, a string, a number or an array.
C30_ExtractIdentity ==
  probe.extracted # NotExtracted =>
    IF probe.request.identity.t = "object"
      THEN probe.extracted = probe.request.identity
      ELSE probe.extracted = JsUndefined

\* An array has been passed as the identity (another identity nested in
\* data), and undefined came back.
C30_Witness ==
  /\ probe.request.identity.t = "array"
  /\ probe.request.data.t = "object"
  /\ probe.extracted = JsUndefined

\* C28: a manager calls source.load once, at its first getConfiguration, and
\* never again, whether the calls follow or overlap one another, and every
\* caller gets the configuration (or the failure) of that one load.
C28_LoadedOnce ==
  /\ \A m \in Managers :
       /\ probe[m].loads <= 1
       /\ probe[m].loads = 1 <=> probe[m].configPromise # "none"
  /\ \A p \in Procs :
       calls[p].op = "getConfiguration" =>
         /\ probe[calls[p].key].loads = 1
         /\ calls[p].pc = "done" =>
              calls[p].res = IF probe[calls[p].key].configPromise = "resolved"
                               THEN Ok(probe[calls[p].key].config)
                               ELSE probe[calls[p].key].error
  /\ \A p, q \in Procs :
       (/\ calls[p].op = "getConfiguration" /\ calls[p].pc = "done"
        /\ calls[q].op = "getConfiguration" /\ calls[q].pc = "done"
        /\ calls[p].key = calls[q].key)
       => calls[p].res = calls[q].res

\* Two overlapping calls of one manager have both got its configuration.
C28_Witness ==
  /\ \A p \in Procs :
       /\ calls[p].op = "getConfiguration" /\ calls[p].pc = "done"
       /\ calls[p].key = "m1"
       /\ calls[p].res = Ok(probe["m1"].config)
  /\ probe["m1"].loads = 1

\* The components of a raw key joined with '::'.
RECURSIVE JoinParts(_)
JoinParts(parts) ==
  IF parts = <<>> THEN ""
  ELSE IF Len(parts) = 1 THEN parts[1]
  ELSE parts[1] \o "::" \o JoinParts(Tail(parts))

\* The components the raw key of (ctx, options, fingerprint) is to have.
KeyParts(ctx, options, fingerprint) ==
  <<CacheKeyPrefix, ctx.mode>>
  \o (IF ctx.mode # AuthModeApplication
        THEN <<"tenant:" \o ctx.tenantId, "user:" \o ctx.userObjectId>>
        ELSE <<>>)
  \o (IF options = UndefinedValue THEN <<>>
      ELSE IF fingerprint # "" THEN <<"fingerprint:" \o fingerprint>>
      ELSE <<"options:" \o serializeOptions(options)>>)

\* C29: the raw key is the '::'-joined prefix, mode, the tenant and user
\* components for a mode other than application, and one options component
\* only when options are defined: the fingerprint when the factory returns a
\* non-empty one, else the hash of the options.  Undefined options add
\* nothing; an empty options object adds an 'options:' component.
C29_RawKeyFormat ==
  KeysGenerated =>
    /\ probe.key1 = createStableCacheKey(
         JoinParts(KeyParts(probe.ctx1, probe.options1, probe.fingerprint1)))
    /\ probe.key2 = createStableCacheKey(
         JoinParts(KeyParts(probe.ctx2, probe.options2, probe.fingerprint2)))
    /\ Len(KeyParts(probe.ctx1, probe.options1, probe.fingerprint1))
         = 2 + (IF probe.ctx1.mode # AuthModeApplication THEN 2 ELSE 0)
             + (IF probe.options1 # UndefinedValue THEN 1 ELSE 0)

\* A delegated request with an empty options object and no fingerprint has
\* a key of five components, next to an application request with undefined
\* options whose key has two.
C29_Witness ==
  /\ KeysGenerated
  /\ probe.ctx1.mode = AuthModeDelegated
  /\ probe.options1 = Obj(<<>>) /\ probe.fingerprint1 = ""
  /\ probe.key1 = createStableCacheKey(
       CacheKeyPrefix \o "::" \o AuthModeDelegated \o "::tenant:t::user:u::options:"
       \o serializeOptions(Obj(<<>>)))
  /\ probe.ctx2.mode = AuthModeApplication
  /\ probe.options2 = UndefinedValue
  /\ probe.key2 = createStableCacheKey(CacheKeyPrefix \o "::" \o AuthModeApplication)

\* The custom TTL of CacheOptions o, sliding or absolute, is zero or less.
CustomTtlNotPositive(o) ==
  \/ o.hasSliding /\ o.slidingTtl <= 0
  \/ o.hasAbsolute /\ o.absoluteTtl <= 0

\* C31: a getOrCreate whose custom TTL, sliding or absolute, is zero or less
\* resolves to the value its factory built and stores no entry: when its
\* createInternal runs on after the factory, the value is not put into the
\* cache and the size of the cache stays as it was.
C31_NotStored ==
  [][ \A f \in 1..Len(flights) :
        (/\ flights[f].cache = "client"
         /\ CustomTtlNotPositive(flights[f].options)
         /\ CreateInternalResume(f, TRUE))
        => /\ flights'[f].status = "resolved"
           /\ f \notin Values(clientCache'.ents)
           /\ Len(clientCache'.ents) = Len(clientCache.ents) ]_vars

\* A hook called on the value of flight f has not run to its end yet.
Disposing(f) == flights[f].settled < flights[f].hookCalls

\* disposeEntry awaits the hook it calls on this value.
HasAsyncHook(value) ==
  HooksInvoked(value) \cap {HookAsyncDispose, HookDispose} # {}

\* C32: removal does not wait for disposal.  In the step in which the cache
\* drops a value with an asynchronous hook, the hook has been called and is
\* still running when the step is over, and a delete or clear call that made
\* the step has returned, a getOrCreate call has gone on.
C32_RemovalDoesNotWait ==
  [][ \A f \in 1..Len(flights) :
        (/\ flights'[f].disposed > flights[f].disposed
         /\ HasAsyncHook(flights[f].value))
        => /\ Disposing(f)'
           /\ \A p \in Procs :
                /\ (calls[p].pc = "idle" /\ calls'[p].op \in {"delete", "clear"})
                     => calls'[p].pc = "done" /\ calls'[p].res.kind = "ok"
                /\ (calls[p].pc = "idle" /\ calls'[p].op = "getOrCreate")
                     => calls'[p].pc \in {"await", "done"} ]_vars

\* While the disposal of an old value of a key is running, a value built
\* later for the key is in the cache and has been served from it.
C32_Witness ==
  \E f, g \in 1..Len(flights), p \in Procs :
    /\ f < g /\ flights[f].key = flights[g].key
    /\ Disposing(f)
    /\ g \in Values(clientCache.ents)
    /\ calls[p].op = "getOrCreate" /\ calls[p].pc = "done"
    /\ calls[p].flight = 0 /\ calls[p].res = Ok(g)

\* Caller p is the first arrival of a getOrCreate whose factory was in
\* flight when clear() ran: it still awaits its promise, and the pending
\* marker it set is gone or is that of a later flight.  (Only clear, or the
\* first arrival of another flight of the key, which needs an earlier clear,
\* removes the marker of a call that has not resumed.)
ClearedInFlight(p) ==
  /\ calls[p].op = "getOrCreate" /\ calls[p].pc = "await" /\ calls[p].owner
  /\ LET k == flights[calls[p].flight].key
     IN ~PendingHas(clientCache, k) \/ clientCache.pending[k] # calls[p].flight

\* C36: what a factory that was in flight when clear() ran has built is not
\* put into the cache afterwards.
C36_NotInsertedAfterClear ==
  \A p \in Procs :
    ClearedInFlight(p) => calls[p].flight \notin Values(clientCache.ents)

\* No getOrCreate call is under way: every call that was started has
\* settled.
AllSettled == \A p \in Procs : calls[p].pc # "await"

\* C37: once every getOrCreate call that was started has settled, the
\* pending-request map is empty, whatever factories succeeded or failed and
\* whatever delete and clear calls came in between.
C37_NoPendingLeft ==
  AllSettled => clientCache.pending = <<>>

\* Every call has settled and no marker is left, after a clear ran while a
\* factory was in flight: a second factory was started for the key and its
\* value stored, and the value of the first replaced it afterwards.
C37_Witness ==
  /\ AllSettled
  /\ clientCache.pending = <<>>
  /\ \E f, g \in 1..Len(flights) :
       /\ f < g /\ flights[f].key = flights[g].key
       /\ f \in Values(clientCache.ents) /\ flights[f].disposed = 0
       /\ flights[g].status = "resolved" /\ flights[g].disposed = 1

\* C33: the auth mode is part of the client key.  Two client factory calls
\* with one key were made for one mode, and a getClient call is served a
\* client that was built for its own mode: a delegated and a composite
\* request never share an entry, nor does either with an application request.
C33_ModeSeparatesEntries ==
  /\ \A f, g \in ClientFlights :
       flights[f].key = flights[g].key => flights[f].ctx.mode = flights[g].ctx.mode
  /\ \A p \in Procs :
       Served(calls[p]) => flights[calls[p].res.id].ctx.mode = calls[p].mode

\* The clients of a delegated and of a composite request for one tenant, user
\* and options are both in the cache, as two entries, and the composite
\* caller has been served its own.
C33_Witness ==
  \E f, g \in Values(clientCache.ents), p \in Procs :
    /\ flights[f].ctx.mode = AuthModeDelegated
    /\ flights[g].ctx.mode = AuthModeComposite
    /\ flights[f].ctx.tenantId = flights[g].ctx.tenantId
    /\ flights[f].ctx.userObjectId = flights[g].ctx.userObjectId
    /\ flights[f].key # flights[g].key
    /\ Served(calls[p]) /\ calls[p].mode = AuthModeComposite
    /\ calls[p].res.id = g

\* The entry of the client cache that holds the value of flight f.
EntryOfValue(ents, f) == ents[CHOOSE i \in 1..Len(ents) : ents[i].value = f]

\* C34: getClient passes no custom TTL for an application request.  The
\* entry of an application client gets the default sliding TTL when it is
\* stored and at every hit, has no absolute deadline, and leaves the cache
\* only when that TTL has run out, when a store into the full cache evicts
\* it or a store for its key replaces it, or when its key is invalidated.
C34_ApplicationDefaultTtl ==
  [][ \A f \in ClientFlights :
        flights[f].ctx.mode = AuthModeApplication =>
          /\ flights[f].options = NoCacheOptions
          /\ f \in Values(clientCache'.ents) =>
               LET e2 == EntryOfValue(clientCache'.ents, f)
               IN /\ e2.absExp = NoAbs
                  /\ \/ e2.exp = now + ClientSlidingTtl
                     \/ /\ f \in Values(clientCache.ents)
                        /\ e2.exp = EntryOfValue(clientCache.ents, f).exp
          /\ (f \in Values(clientCache.ents) /\ f \notin Values(clientCache'.ents)) =>
               \/ EntryOfValue(clientCache.ents, f).exp <= now
               \/ \E g \in 1..Len(flights) :
                    /\ g \notin Values(clientCache.ents)
                    /\ g \in Values(clientCache'.ents)
                    /\ \/ Len(clientCache.ents) = ClientMaxSize
                       \/ flights[g].key = flights[f].key
               \/ \E p \in Procs :
                    /\ calls[p].pc = "idle" /\ calls'[p].op = "invalidate"
                    /\ CallKey(calls'[p]) = flights[f].key ]_vars

\* An application client stored earlier is served from the cache at the time
\* the assertions of the pool expire, and its deadline is again a full
\* default TTL away.
C34_Witness ==
  \E p \in Procs :
    /\ Served(calls[p]) /\ calls[p].mode = AuthModeApplication
    /\ calls[p].flight = 0
    /\ now = MaxTime
    /\ calls[p].res.id \in Values(clientCache.ents)
    /\ EntryOfValue(clientCache.ents, calls[p].res.id).exp = now + ClientSlidingTtl

\* C35: when getClient resolves for a delegated or composite request whose
\* assertion has not expired, the credential provider bound into the client
\* it returns can obtain a delegated credential then: getDelegatedCredential,
\* given the auth context that provider is bound to, does not fail.
C35_ProviderUsable ==
  \A p \in Procs :
    (/\ Served(calls[p]) /\ calls[p].mode # AuthModeApplication
     /\ calls[p].token.expiresAt > now)
    => getDelegatedCredential(flights[calls[p].res.id].ctx, now).err = ""

\* C38: every getClient and getOrCreate call that awaits a factory settles,
\* given that the factory does: a coalesced waiter is not left waiting when
\* delete or clear ran meanwhile, nor is a getClient whose factory asks the
\* credential cache.
C38_EveryCallSettles ==
  \A p \in Procs : (calls[p].pc = "await") ~> (calls[p].pc = "done")

\* A coalesced getCredential waiter has got the credential although
\* clearCache ran while the factory was in flight (the marker is gone and the
\* first arrival has not resumed yet).
C38_Witness ==
  \E p, q \in Procs :
    /\ calls[p].op = "getCredential" /\ calls[p].pc = "done"
    /\ ~calls[p].owner /\ calls[p].flight # 0
    /\ calls[p].res = Ok(calls[p].flight)
    /\ calls[q].op = "getCredential" /\ calls[q].pc = "await"
    /\ calls[q].owner /\ calls[q].flight = calls[p].flight
    /\ ~PendingHas(credCache, ApplicationCredentialKey)

\* The entries of the client cache under keys other than k, as a set.
OtherEntries(ents, k) == { ents[i] : i \in { j \in 1..Len(ents) : ents[j].key # k } }

\* The values of a set of entries.
ValuesOf(es) == { e.value : e \in es }

\* No value of `vs` is handed to dispose in this step.
NotDisposed(vs) == \A f \in vs : flights'[f].disposed = flights[f].disposed

\* Caller p starts, and for these operations ends, a call of operation op.
StartsCall(p, op) == calls[p].pc = "idle" /\ calls'[p].op = op

\* getClient and invalidateClientCache leave the entries of other keys as
\* they are, in their synchronous part and, for getClient, where
\* createInternal runs on after the factory: there a store into the full
\* cache, if the new entry is kept, evicts exactly one entry of another key.
KeyFrame ==
  /\ \A p \in Procs :
       (StartsCall(p, "invalidate") \/ StartsCall(p, "getClient")) =>
         LET k == CallKey(calls'[p])
         IN /\ OtherEntries(clientCache'.ents, k) = OtherEntries(clientCache.ents, k)
            /\ NotDisposed(ValuesOf(OtherEntries(clientCache.ents, k)))
  /\ \A f \in ClientFlights :
       (flights[f].status = "running" /\ flights'[f].status # "running") =>
         LET k == flights[f].key
             before == OtherEntries(clientCache.ents, k)
             after == OtherEntries(clientCache'.ents, k)
             full == Len(clientCache.ents) = ClientMaxSize
                       /\ ~Has(clientCache.ents, k)
         IN /\ after \subseteq before
            /\ NotDisposed(ValuesOf(after))
            /\ IF full /\ f \in Values(clientCache'.ents)
                 THEN Cardinality(before \ after) = 1
                 ELSE after = before

\* The client of flight f was built for a user other than the one of call
\* record c.
OtherUsersClient(f, c) ==
  /\ flights[f].ctx.mode # AuthModeApplication
  /\ <<flights[f].ctx.tenantId, flights[f].ctx.userObjectId>>
       # <<c.token.tenantId, c.token.userObjectId>>

\* C39: getClient and invalidateClientCache for one key leave the entries of
\* every other key untouched, but for the one eviction of a store into the
\* full cache; and invalidating the client of one user neither removes nor
\* disposes the client of another user.
C39_OthersUntouched ==
  [][ /\ KeyFrame
      /\ \A p \in Procs :
           (StartsCall(p, "invalidate") /\ calls'[p].mode # AuthModeApplication) =>
             \A f \in Values(clientCache.ents) :
               OtherUsersClient(f, calls'[p]) =>
                 /\ f \in Values(clientCache'.ents)
                 /\ flights'[f].disposed = flights[f].disposed ]_vars

\* C40: once the load of a manager has failed, source.load is not called
\* again (nothing of the manager changes any more) and every call of
\* getConfiguration and of the four getters on it rejects with the error of
\* that load.
C40_FailureKept ==
  [][ \A m \in Managers :
        probe[m].configPromise = "rejected" =>
          /\ probe'[m] = probe[m]
          /\ probe[m].loads = 1
          /\ \A p \in Procs :
               (/\ calls'[p].op \in ConfigMethods /\ calls'[p].key = m
                /\ calls'[p].pc = "done")
               => calls'[p].res = probe[m].error ]_vars

\* After the one load of a manager failed, a getJwtConfig and a
\* getClientManagerConfig call on it have both been rejected with the error
\* of that load.
C40_Witness ==
  /\ probe["m1"].configPromise = "rejected"
  /\ probe["m1"].loads = 1
  /\ probe["m1"].error = Thrown(1, "loadError")
  /\ calls["p1"].op = "getJwtConfig" /\ calls["p1"].key = "m1"
  /\ calls["p1"].pc = "done" /\ calls["p1"].res = Thrown(1, "loadError")
  /\ calls["p2"].op = "getClientManagerConfig" /\ calls["p2"].key = "m1"
  /\ calls["p2"].pc = "done" /\ calls["p2"].res = Thrown(1, "loadError")

====
